---- MODULE Spec2Model ----
(***************************************************************************)
(* Oracle-db_Graph: the ETL pipeline of PestDataAnalyzer                   *)
(* (main_app/pest_analysis_classes.py), the table copy script              *)
(* (copy_to_freepdb1.py) and the PGX REST client                           *)
(* (main_app/pgx_rest_client.py), as state machines.                       *)
(*                                                                         *)
(* Spec       run_full_analysis of one PestDataAnalyzer against a database *)
(*            whose statements may fail                                    *)
(* SpecCopy   the copy script: copy_table over its list of tables          *)
(* SpecSchema the CREATE TABLE text copy_table builds, over catalogs       *)
(* SpecRest   calls of the public methods of PGXRestClient                 *)
(***************************************************************************)
EXTENDS Integers, Sequences, FiniteSets, TLC

VARIABLES
    \* ---- PestDataAnalyzer and its database ----
    pc,            \* position in main() / run_full_analysis()
    attempt,       \* the loop variable of connect()
    attemptLog,    \* outcome of every oracledb.connect call made so far
    sleepLog,      \* duration of every time.sleep call made so far
    lastError,     \* the DatabaseError caught by the latest failed attempt
    connection,    \* self.connection: "None", "open" or "closed"
    cursor,        \* self.cursor: "None", "open" or "closed"
    raised,        \* the exception propagating out of the try block, or "None"
    result,        \* how run_full_analysis ended: "running", "returned", "raised"
    csv,           \* the rows of the file at csv_path (cells are text)
    df,            \* self.df
    db,            \* committed contents of the ten tables
    tx,            \* contents as seen by the session (uncommitted changes included)
    tableIdx,      \* index into the table list of clear_database
    clearFailed,   \* tables whose DELETE raised in clear_database
    started,       \* pipeline steps that have been entered, in order
    finished,      \* pipeline steps that returned without raising, in order
    pgxRequests,   \* requests sent to the PGX server: <<step, url>>
    filesWritten,  \* files written by the process
    dbDownFor,     \* the database refuses this many connection attempts
    pgxServer,     \* how the PGX server answers GET /version
    pgxLog,        \* outcome of every availability check connect() made
    sqlLog,        \* statements run on self.connection: <<kind, target, outcome>>
    closeCalls,    \* number of calls of close() so far
    graph,         \* self.graph: NoGraph or a loaded graph
    pgx_session,   \* self.pgx_session: "None" or "session"
    pgx_instance,  \* self.pgx_instance: "None" or "instance"
    engineLog,     \* calls made on the graph, the session, the analytics engine,
                   \* the cursor and the file system by cleanup, close and the
                   \* feature functions
    returned,      \* how the latest feature function ended, and its table
    closeFails,    \* the open handles whose close() the driver fails
    closeLog,      \* close() calls made on cursor and connection: <<call, outcome>>
    methodLog,     \* methods called on the analyzer from outside, in order
    \* ---- copy_to_freepdb1.py ----
    cpc,           \* position in the script / in copy_table
    tblIdx,        \* index into the table list of the script
    srcDb,         \* FREE: table -> "absent" or [columns, rows]
    destDb,        \* FREEPDB1, committed: table -> "absent" or [ddl, rows]
    destTx,        \* FREEPDB1 as seen by dest_conn
    cdf,           \* the DataFrame read from the source
    columns,       \* the rows fetched from user_tab_columns
    create_sql,    \* the CREATE TABLE statement built
    copyLog,       \* the lines the script printed: <<message, table>>
    stmtLog,       \* statements FREEPDB1 executed: <<statement, table, outcome>>
    faults,        \* statement failures injected so far
    \* ---- CREATE TABLE builder alone ----
    catalog,       \* the column rows handed to the builder
    built,         \* what it returned: [done, col_defs, sql]
    \* ---- PGXRestClient ----
    requests,      \* HTTP requests issued by the client: [verb, path]
    calls,         \* method calls made on the client: [method, status]
    \* ---- pgql_queries.py ----
    qpc,           \* position in the script
    qconn,         \* the connection of the script: "None", "open" or "closed"
    queryLog,      \* run_query calls made: [analysis, description, outcome, returned]
    qcloses        \* number of connection.close() calls of the script

etlVars == <<pc, attempt, attemptLog, sleepLog, lastError, connection, cursor,
             raised, result, csv, df, db, tx, tableIdx, clearFailed, started,
             finished, pgxRequests, filesWritten, dbDownFor, pgxServer,
             pgxLog, sqlLog, closeCalls, graph, pgx_session, pgx_instance,
             engineLog, returned, closeFails, closeLog, methodLog>>
copyVars == <<cpc, tblIdx, srcDb, destDb, destTx, cdf, columns, create_sql,
              copyLog, stmtLog, faults>>
schemaVars == <<catalog, built>>
restVars == <<requests, calls>>
pgqlVars == <<qpc, qconn, queryLog, qcloses>>
others == <<copyVars, schemaVars, restVars, pgqlVars>>
vars == <<etlVars, others>>

(***************************************************************************)
(* Sequence helpers                                                        *)
(***************************************************************************)
Range(s) == {s[i] : i \in 1..Len(s)}

\* unique() keeping every occurrence
Unique_KeepsAll(s) == s

\* pandas Series.unique() / DataFrame.drop_duplicates(): first occurrences, in order
Unique(s) ==
    LET F[i \in 0..Len(s)] ==
            IF i = 0 THEN <<>>
            ELSE IF \E j \in 1..(i - 1) : s[j] = s[i] THEN F[i - 1]
                 ELSE Append(F[i - 1], s[i])
    IN F[Len(s)]

Count(s, v) == Cardinality({i \in 1..Len(s) : s[i] = v})

IsPrefix(s, t) == Len(s) <= Len(t) /\ \A i \in 1..Len(s) : s[i] = t[i]

(***************************************************************************)
(* PestDataAnalyzer: constants of the code                                 *)
(***************************************************************************)
max_retries == 30
retry_delay == 5

\* the table list with the vertex tables ahead of the tables that refer to them
tables_ParentsFirst ==
    << "entities", "countries", "months", "target_proxies", "country_months",
       "inspections", "shipped_in_edges", "is_from_edges", "has_weather_edges",
       "has_inspection_result_edges" >>

\* the table list of clear_database, in its order
tables == << "has_inspection_result_edges", "has_weather_edges", "is_from_edges",
             "shipped_in_edges", "inspections", "country_months",
             "target_proxies", "months", "countries", "entities" >>

Tables == Range(tables)

\* the steps of run_full_analysis, in the order of its try block
Pipeline == << "connect", "load_data", "clear_database", "create_nodes",
               "create_inspections_and_relationships", "get_stats",
               "create_projection" >>

\* errors oracledb.connect reports (listener down, service unknown)
ConnectErrors == {"ORA-12541", "ORA-12514"}

\* what requests.get(.../version, timeout=5) can come to: status 200, another
\* status, or an exception (no route, timeout)
PgxOutcomes == {"200", "503", "ConnectionError"}

numeric_columns == {"TARGET_PROXY", "ENTY_EXAMS_30D", "ENTY_PESTS_30D",
                    "ENTY_EXAMS_90D", "ENTY_PESTS_90D", "ENTY_EXAMS_1YR",
                    "ENTY_PESTS_1YR"}

CsvColumns == {"ENTY_ID", "CTRY_CODE", "MONTH"} \cup numeric_columns

(***************************************************************************)
(* load_data: reading and cleaning the CSV                                 *)
(***************************************************************************)
\* the cell texts pd.to_numeric reads as a finite number
Numerals == {"0", "1", "2", "3", "1.0"}

\* the cell texts pd.to_numeric reads as an infinity, which .astype(int) rejects
NonFinite == {"inf", "-inf"}

\* pd.to_numeric(cell, errors='coerce'), .fillna(0), .astype(int) on one cell
to_numeric(cell) ==
    CASE cell = "0" -> 0
      [] cell = "1" -> 1
      [] cell = "2" -> 2
      [] cell = "3" -> 3
      [] cell = "1.0" -> 1
      [] OTHER -> 0

\* the test of line 105 on the first data row
IsHeaderRow(row) == row["TARGET_PROXY"] = "TP" \/ row["ENTY_ID"] = "ENTY_ID"

\* cleaning that drops every row looking like a header, wherever it stands
DropHeaderRow_EveryHeader(rows) == SelectSeq(rows, LAMBDA r : ~IsHeaderRow(r))

DropHeaderRow(rows) == IF IsHeaderRow(rows[1]) THEN Tail(rows) ELSE rows

ConvertNumeric(rows) ==
    [i \in 1..Len(rows) |->
        [c \in CsvColumns |->
            IF c \in numeric_columns THEN to_numeric(rows[i][c]) ELSE rows[i][c]]]

Clean(rows) == ConvertNumeric(DropHeaderRow(rows))

(***************************************************************************)
(* The rows the load inserts, computed from self.df                        *)
(***************************************************************************)
Col(d, c) == [i \in 1..Len(d) |-> d[i][c]]

\* the composite key of create_nodes built with another separator than the one
\* create_inspections_and_relationships uses
cm_id_Dash(row) == row["CTRY_CODE"] \o "-" \o row["MONTH"]

cm_id(row) == row["CTRY_CODE"] \o "_" \o row["MONTH"]

target_label(target) == IF target = 0 THEN "no_pest" ELSE "pest"

has_pest(row) == IF row["TARGET_PROXY"] = 1 THEN 1 ELSE 0

EntityInserts(d) ==
    LET u == Unique(Col(d, "ENTY_ID"))
    IN [i \in 1..Len(u) |-> <<"entities", <<u[i], "inspection_entity">>>>]

CountryInserts(d) ==
    LET u == Unique(Col(d, "CTRY_CODE"))
    IN [i \in 1..Len(u) |-> <<"countries", <<u[i], u[i]>>>>]

MonthInserts(d) ==
    LET u == Unique(Col(d, "MONTH"))
    IN [i \in 1..Len(u) |-> <<"months", <<u[i], i>>>>]

TargetInserts(d) ==
    LET u == Unique(Col(d, "TARGET_PROXY"))
    IN [i \in 1..Len(u) |-> <<"target_proxies", <<u[i], target_label(u[i])>>>>]

\* the loop of lines 190-198: a row is inserted when its cm_id is not yet in
\* country_month_set
CountryMonthInserts(d) ==
    LET ids == [i \in 1..Len(d) |-> cm_id(d[i])]
        first == {i \in 1..Len(d) : \A j \in 1..(i - 1) : ids[j] # ids[i]}
        F[i \in 0..Len(d)] ==
            IF i = 0 THEN <<>>
            ELSE IF i \in first
                 THEN Append(F[i - 1], <<"country_months",
                                         <<ids[i], d[i]["CTRY_CODE"], d[i]["MONTH"]>>>>)
                 ELSE F[i - 1]
    IN F[Len(d)]

NodeInserts(d) ==
    EntityInserts(d) \o CountryInserts(d) \o MonthInserts(d) \o TargetInserts(d)
        \o CountryMonthInserts(d)

\* one inspection per distinct row of self.df
InspectionInserts_Distinct(d) ==
    LET u == Unique(d)
    IN [i \in 1..Len(u) |->
           <<"inspections",
             <<u[i]["ENTY_ID"], u[i]["CTRY_CODE"], u[i]["MONTH"], u[i]["TARGET_PROXY"],
               u[i]["ENTY_EXAMS_30D"], u[i]["ENTY_PESTS_30D"], u[i]["ENTY_EXAMS_90D"],
               u[i]["ENTY_PESTS_90D"], u[i]["ENTY_EXAMS_1YR"], u[i]["ENTY_PESTS_1YR"],
               has_pest(u[i])>>>>]

InspectionInserts(d) ==
    [i \in 1..Len(d) |->
        <<"inspections",
          <<d[i]["ENTY_ID"], d[i]["CTRY_CODE"], d[i]["MONTH"], d[i]["TARGET_PROXY"],
            d[i]["ENTY_EXAMS_30D"], d[i]["ENTY_PESTS_30D"], d[i]["ENTY_EXAMS_90D"],
            d[i]["ENTY_PESTS_90D"], d[i]["ENTY_EXAMS_1YR"], d[i]["ENTY_PESTS_1YR"],
            has_pest(d[i])>>>>]

ShippedInInserts(d) ==
    LET u == Unique([i \in 1..Len(d) |-> <<d[i]["ENTY_ID"], d[i]["MONTH"]>>])
    IN [i \in 1..Len(u) |-> <<"shipped_in_edges", u[i]>>]

IsFromInserts(d) ==
    LET u == Unique([i \in 1..Len(d) |-> <<d[i]["ENTY_ID"], d[i]["CTRY_CODE"]>>])
    IN [i \in 1..Len(u) |-> <<"is_from_edges", u[i]>>]

HasWeatherInserts(d) ==
    LET u == Unique([i \in 1..Len(d) |->
                        <<d[i]["ENTY_ID"], d[i]["CTRY_CODE"], d[i]["MONTH"]>>])
    IN [i \in 1..Len(u) |->
           <<"has_weather_edges", <<u[i][1], u[i][2] \o "_" \o u[i][3]>>>>]

HasInspectionResultInserts(d) ==
    LET u == Unique([i \in 1..Len(d) |-> <<d[i]["ENTY_ID"], d[i]["TARGET_PROXY"]>>])
    IN [i \in 1..Len(u) |-> <<"has_inspection_result_edges", u[i]>>]

EdgeInserts(d) ==
    ShippedInInserts(d) \o IsFromInserts(d) \o HasWeatherInserts(d)
        \o HasInspectionResultInserts(d)

(***************************************************************************)
(* The database as the session sees it.  A row carries the run that        *)
(* inserted it: "old" for rows present before run_full_analysis, "run" for *)
(* rows the run inserts.                                                   *)
(***************************************************************************)
NewRow(cols) == [origin |-> "run", cols |-> cols]

OldRow(cols) == [origin |-> "old", cols |-> cols]

RowsFor(t, ins) ==
    LET sel == SelectSeq(ins, LAMBDA x : x[1] = t)
    IN [i \in 1..Len(sel) |-> NewRow(sel[i][2])]

\* the view after the first n INSERT statements of ins were executed
ApplyInserts(view, ins, n) ==
    [t \in Tables |-> view[t] \o RowsFor(t, SubSeq(ins, 1, n))]

\* a DELETE that removes nothing
DeleteFrom_Nothing(view, t) == view

\* DELETE FROM t
DeleteFrom(view, t) == [view EXCEPT ![t] = <<>>]

\* the log of the first n INSERT statements of ins, the statement that raised
\* (statement n + 1, when there is one) included
Executed(ins, n) ==
    [i \in 1..(IF n < Len(ins) THEN n + 1 ELSE n) |->
        <<"INSERT", ins[i][1], IF i <= n THEN "ok" ELSE "error">>]

\* self.connection.commit() as called by a step
Commit(step, outcome) == <<"COMMIT", step, outcome>>

(***************************************************************************)
(* Inputs of a run: the CSV file and what the tables held before           *)
(***************************************************************************)
CsvRow(e, c, m, tp, n) ==
    [col \in CsvColumns |->
        CASE col = "ENTY_ID" -> e
          [] col = "CTRY_CODE" -> c
          [] col = "MONTH" -> m
          [] col = "TARGET_PROXY" -> tp
          [] OTHER -> n]

LoadedFile ==
    << CsvRow("E1", "US", "JAN", "1", "3"), CsvRow("E2", "MX", "JAN", "0", "x"),
       CsvRow("E1", "US", "JAN", "1", "3") >>

\* a file whose country codes and months hold the separator of cm_id
SeparatorFile ==
    << CsvRow("E1", "A_B", "C", "1", "0"), CsvRow("E2", "A", "B_C", "0", "0") >>

CsvFiles ==
    { <<>>,
      LoadedFile,
      << CsvRow("ENTY_ID", "CTRY_CODE", "MONTH", "TP", "N"),
         CsvRow("E1", "US", "FEB", "2", "1.0") >>,
      SeparatorFile }

\* a row an earlier load left in table t
LegacyRow(t) ==
    CASE t = "entities" -> OldRow(<<"E0", "inspection_entity">>)
      [] t = "countries" -> OldRow(<<"CA", "CA">>)
      [] t = "months" -> OldRow(<<"DEC", 1>>)
      [] t = "target_proxies" -> OldRow(<<1, "pest">>)
      [] t = "country_months" -> OldRow(<<"CA_DEC", "CA", "DEC">>)
      [] t = "inspections" -> OldRow(<<"E0", "CA", "DEC", 1, 0, 0, 0, 0, 0, 0, 1>>)
      [] t = "shipped_in_edges" -> OldRow(<<"E0", "DEC">>)
      [] t = "is_from_edges" -> OldRow(<<"E0", "CA">>)
      [] t = "has_weather_edges" -> OldRow(<<"E0", "CA_DEC">>)
      [] OTHER -> OldRow(<<"E0", 1>>)

\* the tables before the run: all empty, a leftover in entities only, or a
\* full earlier load
EmptyDatabase == [t \in Tables |-> <<>>]

OldDatabases ==
    { EmptyDatabase,
      [t \in Tables |-> IF t = "entities" THEN <<LegacyRow(t)>> ELSE <<>>],
      [t \in Tables |-> <<LegacyRow(t)>>] }

(***************************************************************************)
(* PestDataAnalyzer.cleanup (lines 310-321) and PestDataAnalyzer.close     *)
(* (lines 323-344).  Each close() call on a handle sits in its own try;    *)
(* closing a handle that is already closed raises in the driver; whatever  *)
(* the call comes to, the handle is of no use afterwards, and what was not *)
(* committed is rolled back.                                               *)
(***************************************************************************)
\* self.graph = None
NoGraph == [loaded |-> FALSE, entities |-> <<>>, vertices |-> {}, embedded |-> {}]

Closed(handle) == IF handle = "None" THEN "None" ELSE "closed"

\* what handle.close() comes to
CloseOutcome(handle, name) ==
    IF handle = "closed" \/ name \in closeFails THEN "error" ELSE "ok"

\* close() asking the connection first
CloseAttempts_ConnectionFirst(cur, conn) ==
    (IF conn = "None" THEN <<>>
     ELSE << <<"connection.close", CloseOutcome(conn, "connection")>> >>)
    \o (IF cur = "None" THEN <<>>
        ELSE << <<"cursor.close", CloseOutcome(cur, "cursor")>> >>)

\* lines 333-344: the close() calls made on handles that are set
CloseAttempts(cur, conn) ==
    (IF cur = "None" THEN <<>>
     ELSE << <<"cursor.close", CloseOutcome(cur, "cursor")>> >>)
    \o (IF conn = "None" THEN <<>>
        ELSE << <<"connection.close", CloseOutcome(conn, "connection")>> >>)

\* cleanup(): lines 314-319
CleanupCalls == IF graph.loaded THEN <<"graph.destroy">> ELSE <<>>

\* lines 325-331
SessionCalls ==
    IF pgx_session # "None" THEN CleanupCalls \o <<"pgx_session.close">> ELSE <<>>

close ==
    /\ closeCalls' = closeCalls + 1
    /\ engineLog' = engineLog \o SessionCalls
    /\ closeLog' = closeLog \o CloseAttempts(cursor, connection)
    /\ cursor' = Closed(cursor)
    /\ connection' = Closed(connection)
    /\ tx' = db

\* an exception leaves the try block of run_full_analysis
Raise(e) ==
    /\ raised' = e
    /\ pc' = "finally"

\* a step entered / a step returned
Enter(step) == Append(started, step)

Return(step) == Append(finished, step)

(***************************************************************************)
(* main() -> run_full_analysis() -> connect()                              *)
(***************************************************************************)
RunFullAnalysis ==
    /\ pc = "main"
    /\ pc' = "connect"
    /\ attempt' = 1
    /\ started' = Enter("connect")
    /\ UNCHANGED <<dbDownFor, pgxServer, closeFails, returned, methodLog, others>>
    /\ UNCHANGED <<graph, pgx_session, pgx_instance, engineLog, closeLog>>
    /\ UNCHANGED <<pgxLog, sqlLog, closeCalls>>
    /\ UNCHANGED <<attemptLog, sleepLog, lastError, connection, cursor, raised,
                   result, csv, df, db, tx, tableIdx, clearFailed, finished,
                   pgxRequests, filesWritten>>

\* the test of line 65 off by one: the last attempt is retried as well
MayRetry_Inclusive(a) == a <= max_retries

\* line 65: the test that decides between sleeping and re-raising
MayRetry(a) == a < max_retries

\* one iteration of the loop of lines 53-70: oracledb.connect succeeds once the
\* database accepts connections; a failed attempt that may be retried sleeps and
\* moves to the next value of range(1, max_retries + 1), after whose last value
\* the loop ends
ConnectAttempt ==
    /\ pc = "connect"
    /\ attempt <= max_retries
    /\ IF attempt > dbDownFor
       THEN /\ attemptLog' = Append(attemptLog, "ok")
            /\ connection' = "open"
            /\ cursor' = "open"
            /\ tx' = db
            /\ pc' = "pgx_check"
            /\ UNCHANGED <<attempt, sleepLog, lastError, raised>>
       ELSE \E e \in ConnectErrors :
               /\ attemptLog' = Append(attemptLog, "DatabaseError")
               /\ lastError' = e
               /\ IF MayRetry(attempt)
                  THEN /\ sleepLog' = Append(sleepLog, retry_delay)
                       /\ attempt' = attempt + 1
                       /\ pc' = IF attempt + 1 > max_retries
                                THEN "pgx_check" ELSE "connect"
                       /\ UNCHANGED raised
                  ELSE /\ Raise(e)
                       /\ UNCHANGED <<attempt, sleepLog>>
               /\ UNCHANGED <<connection, cursor, tx>>
    /\ UNCHANGED <<dbDownFor, pgxServer, closeFails, returned, methodLog, others>>
    /\ UNCHANGED <<graph, pgx_session, pgx_instance, engineLog, closeLog>>
    /\ UNCHANGED <<pgxLog, sqlLog, closeCalls>>
    /\ UNCHANGED <<result, csv, df, db, tableIdx, clearFailed, started, finished,
                   pgxRequests, filesWritten>>

\* lines 72-93 with the session of an available server kept in the fields
PgxFieldsAfterCheck_KeepsSession ==
    /\ graph' = NoGraph
    /\ pgx_session' = IF pgxServer = "200" THEN "session" ELSE "None"
    /\ pgx_instance' = IF pgxServer = "200" THEN "instance" ELSE "None"

\* lines 82-84 and 91-93: whatever the check comes to
PgxFieldsAfterCheck ==
    /\ graph' = NoGraph
    /\ pgx_session' = "None"
    /\ pgx_instance' = "None"

\* the availability check letting a failed check leave connect() as an exception
PgxCheck_Propagates ==
    /\ pc = "pgx_check"
    /\ pgxRequests' = Append(pgxRequests, <<"connect", "/version">>)
    /\ pgxLog' = Append(pgxLog, pgxServer)
    /\ IF pgxServer = "200"
       THEN /\ finished' = Return("connect")
            /\ pc' = "load_data"
            /\ UNCHANGED raised
       ELSE /\ Raise(pgxServer)
            /\ UNCHANGED finished
    /\ UNCHANGED <<dbDownFor, pgxServer, closeFails, returned, methodLog, others>>
    /\ PgxFieldsAfterCheck
    /\ UNCHANGED <<engineLog, closeLog>>
    /\ UNCHANGED <<sqlLog, closeCalls>>
    /\ UNCHANGED <<attempt, attemptLog, sleepLog, lastError, connection, cursor,
                   result, csv, df, db, tx, tableIdx, clearFailed, started,
                   filesWritten>>

\* lines 72-93: the availability check of the PGX server; every outcome
\* (200, another status, an exception) ends with connect() returning
PgxCheck ==
    /\ pc = "pgx_check"
    /\ pgxRequests' = Append(pgxRequests, <<"connect", "/version">>)
    /\ pgxLog' = Append(pgxLog, pgxServer)
    /\ finished' = Return("connect")
    /\ pc' = "load_data"
    /\ UNCHANGED <<dbDownFor, pgxServer, closeFails, returned, methodLog, others>>
    /\ PgxFieldsAfterCheck
    /\ UNCHANGED <<engineLog, closeLog>>
    /\ UNCHANGED <<sqlLog, closeCalls>>
    /\ UNCHANGED <<attempt, attemptLog, sleepLog, lastError, connection, cursor,
                   raised, result, csv, df, db, tx, tableIdx, clearFailed,
                   started, filesWritten>>

(***************************************************************************)
(* load_data (lines 95-118)                                                *)
(***************************************************************************)
LoadData ==
    /\ pc = "load_data"
    /\ started' = Enter("load_data")
    /\ \/ /\ Raise("FileNotFoundError")          \* pd.read_csv
          /\ UNCHANGED <<df, finished>>
       \/ /\ Len(csv) = 0
          /\ Raise("IndexError")                 \* self.df.iloc[0]
          /\ UNCHANGED <<df, finished>>
       \/ /\ Len(csv) > 0                        \* .astype(int) on an infinity
          /\ \E i \in 1..Len(DropHeaderRow(csv)) : \E c \in numeric_columns :
                DropHeaderRow(csv)[i][c] \in NonFinite
          /\ Raise("ValueError")
          /\ UNCHANGED <<df, finished>>
       \/ /\ Len(csv) > 0
          /\ \A i \in 1..Len(DropHeaderRow(csv)) : \A c \in numeric_columns :
                DropHeaderRow(csv)[i][c] \notin NonFinite
          /\ df' = Clean(csv)
          /\ finished' = Return("load_data")
          /\ pc' = "clear_database"
          /\ UNCHANGED raised
    /\ UNCHANGED <<dbDownFor, pgxServer, closeFails, returned, methodLog, others>>
    /\ UNCHANGED <<graph, pgx_session, pgx_instance, engineLog, closeLog>>
    /\ UNCHANGED <<pgxLog, sqlLog, closeCalls>>
    /\ UNCHANGED <<attempt, attemptLog, sleepLog, lastError, connection, cursor,
                   result, csv, db, tx, tableIdx, clearFailed, pgxRequests,
                   filesWritten>>

(***************************************************************************)
(* clear_database (lines 120-145)                                          *)
(***************************************************************************)
\* how many DELETE statements of one clear_database may fail
MaxClearFailures == 1

\* the loop without its try: a DELETE that fails ends clear_database
ClearTable_Raises ==
    /\ pc = "clear_database"
    /\ tableIdx <= Len(tables)
    /\ started' = IF tableIdx = 1 THEN Enter("clear_database") ELSE started
    /\ \/ /\ tx' = DeleteFrom(tx, tables[tableIdx])
          /\ sqlLog' = Append(sqlLog, <<"DELETE", tables[tableIdx], "ok">>)
          /\ UNCHANGED <<clearFailed, pc, raised>>
       \/ /\ Cardinality(clearFailed) < MaxClearFailures
          /\ clearFailed' = clearFailed \cup {tables[tableIdx]}
          /\ sqlLog' = Append(sqlLog, <<"DELETE", tables[tableIdx], "error">>)
          /\ Raise("DatabaseError")
          /\ UNCHANGED tx
    /\ tableIdx' = tableIdx + 1
    /\ UNCHANGED <<dbDownFor, pgxServer, closeFails, returned, methodLog, others>>
    /\ UNCHANGED <<graph, pgx_session, pgx_instance, engineLog, closeLog>>
    /\ UNCHANGED <<pgxLog, closeCalls>>
    /\ UNCHANGED <<attempt, attemptLog, sleepLog, lastError, connection,
                   cursor, result, csv, df, db, finished, pgxRequests,
                   filesWritten>>

\* one iteration of the loop of lines 137-142
ClearTable ==
    /\ pc = "clear_database"
    /\ tableIdx <= Len(tables)
    /\ started' = IF tableIdx = 1 THEN Enter("clear_database") ELSE started
    /\ \/ /\ tx' = DeleteFrom(tx, tables[tableIdx])
          /\ sqlLog' = Append(sqlLog, <<"DELETE", tables[tableIdx], "ok">>)
          /\ UNCHANGED clearFailed
       \/ /\ Cardinality(clearFailed) < MaxClearFailures
          /\ clearFailed' = clearFailed \cup {tables[tableIdx]}
          /\ sqlLog' = Append(sqlLog, <<"DELETE", tables[tableIdx], "error">>)
          /\ UNCHANGED tx
    /\ tableIdx' = tableIdx + 1
    /\ UNCHANGED <<dbDownFor, pgxServer, closeFails, returned, methodLog, others>>
    /\ UNCHANGED <<graph, pgx_session, pgx_instance, engineLog, closeLog>>
    /\ UNCHANGED <<pgxLog, closeCalls>>
    /\ UNCHANGED <<pc, attempt, attemptLog, sleepLog, lastError, connection,
                   cursor, raised, result, csv, df, db, finished, pgxRequests,
                   filesWritten>>

\* line 144
ClearCommit ==
    /\ pc = "clear_database"
    /\ tableIdx > Len(tables)
    /\ \/ /\ db' = tx
          /\ sqlLog' = Append(sqlLog, Commit("clear_database", "ok"))
          /\ finished' = Return("clear_database")
          /\ pc' = "create_nodes"
          /\ UNCHANGED raised
       \/ /\ Raise("DatabaseError")
          /\ sqlLog' = Append(sqlLog, Commit("clear_database", "error"))
          /\ UNCHANGED <<db, finished>>
    /\ UNCHANGED <<dbDownFor, pgxServer, closeFails, returned, methodLog, others>>
    /\ UNCHANGED <<graph, pgx_session, pgx_instance, engineLog, closeLog>>
    /\ UNCHANGED <<pgxLog, closeCalls>>
    /\ UNCHANGED <<attempt, attemptLog, sleepLog, lastError, connection, cursor,
                   result, csv, df, tx, tableIdx, clearFailed, started,
                   pgxRequests, filesWritten>>

(***************************************************************************)
(* create_nodes (lines 147-201)                                            *)
(***************************************************************************)
\* create_nodes catching the error of a failed insert and returning
CreateNodes_LogAndContinue ==
    /\ pc = "create_nodes"
    /\ started' = Enter("create_nodes")
    /\ \E n \in 0..Len(NodeInserts(df)) :
          /\ tx' = ApplyInserts(tx, NodeInserts(df), n)
          /\ pc' = "create_inspections_and_relationships"
          /\ IF n = Len(NodeInserts(df))
             THEN /\ db' = tx'
                  /\ sqlLog' = sqlLog \o Executed(NodeInserts(df), n)
                                    \o <<Commit("create_nodes", "ok")>>
                  /\ finished' = Return("create_nodes")
             ELSE /\ sqlLog' = sqlLog \o Executed(NodeInserts(df), n)
                  /\ UNCHANGED <<db, finished>>
    /\ UNCHANGED <<dbDownFor, pgxServer, closeFails, returned, methodLog, others>>
    /\ UNCHANGED <<graph, pgx_session, pgx_instance, engineLog, closeLog>>
    /\ UNCHANGED <<pgxLog, closeCalls>>
    /\ UNCHANGED <<attempt, attemptLog, sleepLog, lastError, connection, cursor,
                   raised, result, csv, df, tableIdx, clearFailed, pgxRequests,
                   filesWritten>>

\* create_nodes on a connection that commits every statement as it is executed
CreateNodes_Autocommit ==
    /\ pc = "create_nodes"
    /\ started' = Enter("create_nodes")
    /\ LET ins == NodeInserts(df)
       IN \/ \E n \in 0..(Len(ins) - 1) :
                /\ tx' = ApplyInserts(tx, ins, n)
                /\ db' = tx'
                /\ sqlLog' = sqlLog \o Executed(ins, n)
                /\ Raise("DatabaseError")
                /\ UNCHANGED finished
          \/ /\ tx' = ApplyInserts(tx, ins, Len(ins))
             /\ db' = tx'
             /\ sqlLog' = sqlLog \o Executed(ins, Len(ins))
                               \o <<Commit("create_nodes", "ok")>>
             /\ finished' = Return("create_nodes")
             /\ pc' = "create_inspections_and_relationships"
             /\ UNCHANGED raised
    /\ UNCHANGED <<dbDownFor, pgxServer, closeFails, returned, methodLog, others>>
    /\ UNCHANGED <<graph, pgx_session, pgx_instance, engineLog, closeLog>>
    /\ UNCHANGED <<pgxLog, closeCalls>>
    /\ UNCHANGED <<attempt, attemptLog, sleepLog, lastError, connection, cursor,
                   result, csv, df, tableIdx, clearFailed, pgxRequests,
                   filesWritten>>

CreateNodes ==
    /\ pc = "create_nodes"
    /\ started' = Enter("create_nodes")
    /\ LET ins == NodeInserts(df)
       IN \/ \E n \in 0..(Len(ins) - 1) :       \* statement n + 1 raises
                /\ tx' = ApplyInserts(tx, ins, n)
                /\ sqlLog' = sqlLog \o Executed(ins, n)
                /\ Raise("DatabaseError")
                /\ UNCHANGED <<db, finished>>
          \/ /\ tx' = ApplyInserts(tx, ins, Len(ins))
             /\ \/ /\ db' = tx'
                   /\ sqlLog' = sqlLog \o Executed(ins, Len(ins))
                                     \o <<Commit("create_nodes", "ok")>>
                   /\ finished' = Return("create_nodes")
                   /\ pc' = "create_inspections_and_relationships"
                   /\ UNCHANGED raised
                \/ /\ Raise("DatabaseError")    \* the commit raises
                   /\ sqlLog' = sqlLog \o Executed(ins, Len(ins))
                                     \o <<Commit("create_nodes", "error")>>
                   /\ UNCHANGED <<db, finished>>
    /\ UNCHANGED <<dbDownFor, pgxServer, closeFails, returned, methodLog, others>>
    /\ UNCHANGED <<graph, pgx_session, pgx_instance, engineLog, closeLog>>
    /\ UNCHANGED <<pgxLog, closeCalls>>
    /\ UNCHANGED <<attempt, attemptLog, sleepLog, lastError, connection, cursor,
                   result, csv, df, tableIdx, clearFailed, pgxRequests,
                   filesWritten>>

(***************************************************************************)
(* create_inspections_and_relationships (lines 203-260)                    *)
(***************************************************************************)
CreateInspectionsAndRelationships ==
    /\ pc = "create_inspections_and_relationships"
    /\ started' = Enter("create_inspections_and_relationships")
    /\ LET ins == InspectionInserts(df)
           edges == EdgeInserts(df)
           loaded == ApplyInserts(tx, ins, Len(ins))
           step == "create_inspections_and_relationships"
           inspected == sqlLog \o Executed(ins, Len(ins)) \o <<Commit(step, "ok")>>
       IN \/ \E n \in 0..(Len(ins) - 1) :       \* an inspection insert raises
                /\ tx' = ApplyInserts(tx, ins, n)
                /\ sqlLog' = sqlLog \o Executed(ins, n)
                /\ Raise("DatabaseError")
                /\ UNCHANGED <<db, finished>>
          \/ /\ tx' = loaded                     \* the commit of line 224 raises
             /\ sqlLog' = sqlLog \o Executed(ins, Len(ins))
                               \o <<Commit(step, "error")>>
             /\ Raise("DatabaseError")
             /\ UNCHANGED <<db, finished>>
          \/ \E n \in 0..(Len(edges) - 1) :     \* an edge insert raises
                /\ tx' = ApplyInserts(loaded, edges, n)
                /\ db' = loaded
                /\ sqlLog' = inspected \o Executed(edges, n)
                /\ Raise("DatabaseError")
                /\ UNCHANGED finished
          \/ /\ tx' = ApplyInserts(loaded, edges, Len(edges))
             /\ \/ /\ db' = tx'
                   /\ sqlLog' = inspected \o Executed(edges, Len(edges))
                                        \o <<Commit(step, "ok")>>
                   /\ finished' = Return(step)
                   /\ pc' = "get_stats"
                   /\ UNCHANGED raised
                \/ /\ db' = loaded               \* the commit of line 259 raises
                   /\ sqlLog' = inspected \o Executed(edges, Len(edges))
                                        \o <<Commit(step, "error")>>
                   /\ Raise("DatabaseError")
                   /\ UNCHANGED finished
    /\ UNCHANGED <<dbDownFor, pgxServer, closeFails, returned, methodLog, others>>
    /\ UNCHANGED <<graph, pgx_session, pgx_instance, engineLog, closeLog>>
    /\ UNCHANGED <<pgxLog, closeCalls>>
    /\ UNCHANGED <<attempt, attemptLog, sleepLog, lastError, connection, cursor,
                   result, csv, df, tableIdx, clearFailed, pgxRequests,
                   filesWritten>>

(***************************************************************************)
(* get_stats (lines 262-283) and create_projection (lines 285-296)         *)
(***************************************************************************)
GetStats ==
    /\ pc = "get_stats"
    /\ started' = Enter("get_stats")
    /\ \/ /\ finished' = Return("get_stats")
          /\ pc' = "create_projection"
          /\ UNCHANGED raised
       \/ /\ Raise("DatabaseError")              \* a SELECT COUNT(*) raises
          /\ UNCHANGED finished
    /\ UNCHANGED <<dbDownFor, pgxServer, closeFails, returned, methodLog, others>>
    /\ UNCHANGED <<graph, pgx_session, pgx_instance, engineLog, closeLog>>
    /\ UNCHANGED <<pgxLog, sqlLog, closeCalls>>
    /\ UNCHANGED <<attempt, attemptLog, sleepLog, lastError, connection, cursor,
                   result, csv, df, db, tx, tableIdx, clearFailed, pgxRequests,
                   filesWritten>>

\* create_projection running an algorithm on the PGX server and saving the result
CreateProjection_RunsAnalytics ==
    /\ pc = "create_projection"
    /\ started' = Enter("create_projection")
    /\ finished' = Return("create_projection")
    /\ pgxRequests' = Append(pgxRequests,
                             <<"create_projection", "/analytics/algorithms/run">>)
    /\ filesWritten' = filesWritten \cup {"features.csv"}
    /\ pc' = "finally"
    /\ UNCHANGED <<dbDownFor, pgxServer, closeFails, returned, methodLog, others>>
    /\ graph' = NoGraph
    /\ UNCHANGED <<pgx_session, pgx_instance, engineLog, closeLog>>
    /\ UNCHANGED <<pgxLog, sqlLog, closeCalls>>
    /\ UNCHANGED <<attempt, attemptLog, sleepLog, lastError, connection, cursor,
                   raised, result, csv, df, db, tx, tableIdx, clearFailed>>

\* logs three lines and sets self.graph = None: no request, no file
CreateProjection ==
    /\ pc = "create_projection"
    /\ started' = Enter("create_projection")
    /\ finished' = Return("create_projection")
    /\ pc' = "finally"
    /\ UNCHANGED <<dbDownFor, pgxServer, closeFails, returned, methodLog, others>>
    /\ graph' = NoGraph
    /\ UNCHANGED <<pgx_session, pgx_instance, engineLog, closeLog>>
    /\ UNCHANGED <<pgxLog, sqlLog, closeCalls>>
    /\ UNCHANGED <<attempt, attemptLog, sleepLog, lastError, connection, cursor,
                   raised, result, csv, df, db, tx, tableIdx, clearFailed,
                   pgxRequests, filesWritten>>

(***************************************************************************)
(* The except and finally clauses of run_full_analysis (lines 374-379) and *)
(* the finally clause of main (lines 421-425)                              *)
(***************************************************************************)
\* an except clause that logs the error and does not re-raise it
Finally_Swallow ==
    /\ pc = "finally"
    /\ close
    /\ result' = "returned"
    /\ raised' = "None"
    /\ pc' = "main_finally"
    /\ UNCHANGED <<dbDownFor, pgxServer, closeFails, returned, methodLog, others>>
    /\ UNCHANGED <<graph, pgx_session, pgx_instance>>
    /\ UNCHANGED <<pgxLog, sqlLog>>
    /\ UNCHANGED <<attempt, attemptLog, sleepLog, lastError, csv, df, db,
                   tableIdx, clearFailed, started, finished, pgxRequests,
                   filesWritten>>

\* run_full_analysis without its finally clause
Finally_NoClose ==
    /\ pc = "finally"
    /\ result' = IF raised = "None" THEN "returned" ELSE "raised"
    /\ pc' = "main_finally"
    /\ UNCHANGED <<dbDownFor, pgxServer, closeFails, returned, methodLog, others>>
    /\ UNCHANGED <<graph, pgx_session, pgx_instance, engineLog, closeLog>>
    /\ UNCHANGED <<pgxLog, sqlLog, closeCalls, cursor, connection, tx>>
    /\ UNCHANGED <<attempt, attemptLog, sleepLog, lastError, raised, csv, df, db,
                   tableIdx, clearFailed, started, finished, pgxRequests,
                   filesWritten>>

Finally ==
    /\ pc = "finally"
    /\ close
    /\ result' = IF raised = "None" THEN "returned" ELSE "raised"
    /\ pc' = "main_finally"
    /\ UNCHANGED <<dbDownFor, pgxServer, closeFails, returned, methodLog, others>>
    /\ UNCHANGED <<graph, pgx_session, pgx_instance>>
    /\ UNCHANGED <<pgxLog, sqlLog>>
    /\ UNCHANGED <<attempt, attemptLog, sleepLog, lastError, raised, csv, df, db,
                   tableIdx, clearFailed, started, finished, pgxRequests,
                   filesWritten>>

MainFinally ==
    /\ pc = "main_finally"
    /\ close
    /\ pc' = "exit"
    /\ UNCHANGED <<dbDownFor, pgxServer, closeFails, returned, methodLog, others>>
    /\ UNCHANGED <<graph, pgx_session, pgx_instance>>
    /\ UNCHANGED <<pgxLog, sqlLog>>
    /\ UNCHANGED <<attempt, attemptLog, sleepLog, lastError, raised, result, csv,
                   df, db, tableIdx, clearFailed, started, finished, pgxRequests,
                   filesWritten>>

(***************************************************************************)
(* Spec: one run of main() of pest_analysis_classes.py                     *)
(***************************************************************************)
CopyIdle ==
    /\ cpc = "idle"
    /\ tblIdx = 0
    /\ srcDb = <<>>
    /\ destDb = <<>>
    /\ destTx = <<>>
    /\ cdf = <<>>
    /\ columns = <<>>
    /\ create_sql = "None"
    /\ copyLog = <<>>
    /\ stmtLog = <<>>
    /\ faults = 0

NotBuilt == [done |-> FALSE, col_defs |-> <<>>, sql |-> ""]

SchemaIdle ==
    /\ catalog = <<>>
    /\ built = NotBuilt

RestIdle ==
    /\ requests = <<>>
    /\ calls = <<>>

PgqlIdle ==
    /\ qpc = "idle"
    /\ qconn = "None"
    /\ queryLog = <<>>
    /\ qcloses = 0

\* the handles close() closes
Handles == {"cursor", "connection"}

\* no feature function has been called
NothingReturned ==
    [function |-> "None", raised |-> "None", embedding_dim |-> 0, table |-> <<>>]

\* PestDataAnalyzer.__init__ (lines 23-28) and the world around it
Init ==
    /\ pc = "main"
    /\ attempt = 0
    /\ attemptLog = <<>>
    /\ sleepLog = <<>>
    /\ lastError = "None"
    /\ connection = "None"
    /\ cursor = "None"
    /\ raised = "None"
    /\ result = "running"
    /\ df = <<>>
    /\ \/ /\ dbDownFor \in 0..max_retries
          /\ pgxServer \in PgxOutcomes
          /\ csv = LoadedFile
          /\ db = EmptyDatabase
          /\ closeFails = {}
       \/ /\ dbDownFor = 0
          /\ pgxServer = "200"
          /\ csv \in CsvFiles
          /\ db \in OldDatabases
          /\ closeFails = {}
       \/ /\ dbDownFor = 0
          /\ pgxServer = "200"
          /\ csv = LoadedFile
          /\ db = EmptyDatabase
          /\ closeFails \in (SUBSET Handles) \ {{}}
    /\ tx = db
    /\ tableIdx = 1
    /\ clearFailed = {}
    /\ started = <<>>
    /\ finished = <<>>
    /\ pgxRequests = <<>>
    /\ filesWritten = {}
    /\ pgxLog = <<>>
    /\ sqlLog = <<>>
    /\ closeCalls = 0
    /\ graph = NoGraph
    /\ pgx_session = "None"
    /\ pgx_instance = "None"
    /\ engineLog = <<>>
    /\ returned = NothingReturned
    /\ closeLog = <<>>
    /\ methodLog = <<>>
    /\ CopyIdle
    /\ SchemaIdle
    /\ RestIdle
    /\ PgqlIdle

Next ==
    \/ RunFullAnalysis
    \/ ConnectAttempt
    \/ PgxCheck
    \/ LoadData
    \/ ClearTable
    \/ ClearCommit
    \/ CreateNodes
    \/ CreateInspectionsAndRelationships
    \/ GetStats
    \/ CreateProjection
    \/ Finally
    \/ MainFinally

Spec == Init /\ [][Next]_vars

(***************************************************************************)
(* Properties of connect() and run_full_analysis()                         *)
(***************************************************************************)
FailedAttempts == {i \in 1..Len(attemptLog) : attemptLog[i] = "DatabaseError"}

AllAttemptsFailed == Len(attemptLog) = 30 /\ Cardinality(FailedAttempts) = 30

RowsOfRun(view) == {t \in Tables : \E i \in 1..Len(view[t]) : view[t][i].origin = "run"}

\* C1: connect() makes at most 30 connection attempts, none after the first
\* one that succeeds, and sleeps 5 seconds once after every failed attempt but
\* the 30th.
C1_ConnectRetries ==
    /\ Len(attemptLog) <= 30
    /\ \A i \in 1..Len(attemptLog) : attemptLog[i] = "ok" => i = Len(attemptLog)
    /\ Len(sleepLog) = Cardinality(FailedAttempts \ {30})
    /\ \A i \in 1..Len(sleepLog) : sleepLog[i] = 5

C1_Witness ==
    /\ AllAttemptsFailed
    /\ Len(sleepLog) = 29
    /\ raised # "None"

\* C2: when all 30 attempts fail with a database error, the error of the last
\* attempt is the one raised, run_full_analysis ends by raising it, and neither
\* load_data nor clear_database nor any INSERT was executed.
C2_ExhaustionPropagates ==
    AllAttemptsFailed =>
        /\ raised = lastError
        /\ raised \in ConnectErrors
        /\ result # "returned"
        /\ pc \in {"main_finally", "exit"} => result = "raised"
        /\ started = <<"connect">>
        /\ finished = <<>>
        /\ RowsOfRun(tx) = {} /\ RowsOfRun(db) = {}
        /\ clearFailed = {} /\ tableIdx = 1

C2_Witness ==
    /\ AllAttemptsFailed
    /\ pc = "exit"
    /\ result = "raised"

\* C3: the steps of run_full_analysis are entered in the order connect,
\* load_data, clear_database, create_nodes,
\* create_inspections_and_relationships, get_stats, create_projection; a step is
\* entered only when every step before it has returned, and once a step has
\* raised no step is entered or completed any more.
C3_StepOrder ==
    /\ [](/\ IsPrefix(started, Pipeline)
          /\ IsPrefix(finished, started)
          /\ Len(started) <= Len(finished) + 1
          /\ raised # "None" => Len(started) = Len(finished) + 1)
    /\ [][raised # "None" => started' = started /\ finished' = finished]_vars

C3_Witness ==
    /\ pc = "exit"
    /\ raised # "None"
    /\ started = SubSeq(Pipeline, 1, 4)
    /\ finished = SubSeq(Pipeline, 1, 3)

AfterInserts == {"get_stats", "create_projection"}

AnalyticsCallsAfterInserts ==
    {i \in 1..Len(pgxRequests) : pgxRequests[i][1] \in AfterInserts}

\* C4 as stated: a run that completed successfully has called the external
\* analytics client after the inserts and has written a CSV of results.
C4_AnalyticsAndCsv ==
    result = "returned" =>
        /\ AnalyticsCallsAfterInserts # {}
        /\ filesWritten # {}

\* C4, amended: a run that completed successfully went through all seven steps,
\* sent the PGX server nothing but the availability check of connect(), made
\* no call to the analytics client after the inserts and wrote no file.
C4_NoAnalyticsNoCsv ==
    result = "returned" =>
        /\ finished = Pipeline
        /\ pgxRequests = << <<"connect", "/version">> >>
        /\ AnalyticsCallsAfterInserts = {}
        /\ filesWritten = {}

C4_Witness ==
    /\ result = "returned"
    /\ Len(db["inspections"]) = 3
    /\ Len(db["shipped_in_edges"]) = 2

OnlyRowsOfRun(t) == \A i \in 1..Len(db[t]) : db[t][i].origin = "run"

\* C5 as stated: after a successful run every table holds only rows of that
\* run, whichever DELETE statements failed.
C5_TruncateAndReload ==
    result = "returned" => \A t \in Tables : OnlyRowsOfRun(t)

\* C5, amended: after a successful run every table whose DELETE succeeded holds
\* only rows of that run.
C5_TruncateWhereDeleted ==
    result = "returned" => \A t \in Tables \ clearFailed : OnlyRowsOfRun(t)

C5_Witness ==
    /\ result = "returned"
    /\ clearFailed = {"entities"}
    /\ db["entities"][1].origin = "old"
    /\ Len(db["entities"]) = 3
    /\ Len(db["inspections"]) = 3

\* C11: connect() checks the PGX server at most once and exactly once when it
\* returns, only after oracledb.connect succeeded, and whatever the check comes
\* to (200, another status, an exception) the step that makes it ends with
\* connect() returned, nothing raised and the connection and cursor open.
C11_PgxCheckOnce ==
    /\ [](/\ Len(pgxLog) <= 1
          /\ Len(pgxRequests) = Len(pgxLog)
          /\ pgxLog # <<>> => /\ attemptLog # <<>>
                              /\ attemptLog[Len(attemptLog)] = "ok"
          /\ (finished # <<>>) <=> (Len(pgxLog) = 1))
    /\ [][pgxLog' # pgxLog =>
            /\ connection = "open" /\ connection' = "open"
            /\ cursor' = "open"
            /\ raised' = "None"
            /\ finished' = <<"connect">>]_vars

C11_Witness ==
    /\ pgxLog = <<"ConnectionError">>
    /\ Len(attemptLog) = 3
    /\ connection = "open"
    /\ finished = <<"connect">>
    /\ raised = "None"

Deletes == SelectSeq(sqlLog, LAMBDA x : x[1] = "DELETE")

ClearCommits ==
    {i \in 1..Len(sqlLog) : sqlLog[i][1] = "COMMIT" /\ sqlLog[i][2] = "clear_database"}

ClearEnded == Len(finished) >= 3 \/ (Len(started) = 3 /\ raised # "None")

\* C13: clear_database runs DELETE on no table twice; the tables whose DELETE
\* failed are the ones it logged and went past; its commit comes once, right
\* after the tenth DELETE; when clear_database has ended, all ten tables were
\* attempted and one commit was issued; and when it ended by raising, it was
\* the commit that raised, never a DELETE.
C13_ClearAttemptsAll ==
    /\ \A t \in Tables : Cardinality({i \in 1..Len(Deletes) : Deletes[i][2] = t}) <= 1
    /\ {Deletes[i][2] : i \in {j \in 1..Len(Deletes) : Deletes[j][3] = "error"}}
           = clearFailed
    /\ ClearCommits \subseteq {Len(tables) + 1}
    /\ ClearEnded =>
          /\ {Deletes[i][2] : i \in 1..Len(Deletes)} = Tables
          /\ Len(Deletes) = 10
          /\ ClearCommits = {11}
    /\ (Len(started) = 3 /\ raised # "None") =>
          sqlLog[Len(sqlLog)] = Commit("clear_database", "error")

C13_Witness ==
    /\ Len(finished) = 3
    /\ clearFailed = {"has_weather_edges"}
    /\ Len(Deletes) = 10
    /\ sqlLog[11] = Commit("clear_database", "ok")

\* the tables a row of table t refers to by the key columns it carries
References(t) ==
    CASE t = "inspections" -> {"entities", "countries", "months", "target_proxies"}
      [] t = "country_months" -> {"countries", "months"}
      [] t = "shipped_in_edges" -> {"entities", "months"}
      [] t = "is_from_edges" -> {"entities", "countries"}
      [] t = "has_weather_edges" -> {"entities", "country_months"}
      [] t = "has_inspection_result_edges" -> {"entities", "target_proxies"}
      [] OTHER -> {}

EdgeTables == {"shipped_in_edges", "is_from_edges", "has_weather_edges",
               "has_inspection_result_edges"}

DeleteRank(t) ==
    CASE t \in EdgeTables -> 1
      [] t = "inspections" -> 2
      [] t = "country_months" -> 3
      [] OTHER -> 4

\* C14: when clear_database reaches the DELETE of a table, it has already run
\* the DELETE of every table that refers to it; the four edge tables come
\* first, then inspections, then country_months, then the other vertex tables,
\* entities being the tenth.
C14_ChildrenFirst ==
    /\ \A i \in 1..Len(Deletes) : \A u \in Tables :
          Deletes[i][2] \in References(u) =>
              \E j \in 1..(i - 1) : Deletes[j][2] = u
    /\ \A i, j \in 1..Len(Deletes) :
          i < j => DeleteRank(Deletes[i][2]) <= DeleteRank(Deletes[j][2])
    /\ \A i \in 1..Len(Deletes) : Deletes[i][2] = "entities" => i = 10

C14_Witness ==
    /\ Len(Deletes) = 10
    /\ Deletes[5][2] = "inspections"
    /\ Deletes[6][2] = "country_months"
    /\ Deletes[10][2] = "entities"

(***************************************************************************)
(* Properties of the rows the load inserts                                 *)
(***************************************************************************)
\* the vertex tables create_nodes fills
VertexTables == {"entities", "countries", "months", "target_proxies", "country_months"}

\* the rows of table t that this run inserted
RunRows(view, t) == SelectSeq(view[t], LAMBDA r : r.origin = "run")

RunKeys(view, t) == {RunRows(view, t)[i].cols[1] : i \in 1..Len(RunRows(view, t))}

RunCols(view, t) == {RunRows(view, t)[i].cols : i \in 1..Len(RunRows(view, t))}

NodesLoaded == Len(finished) >= 4

FullyLoaded == Len(finished) >= 5

CountryMonthPairs == {<<df[i]["CTRY_CODE"], df[i]["MONTH"]>> : i \in 1..Len(df)}

\* C16 as stated: once create_nodes has returned, country_months holds one row
\* of this run for every distinct (CTRY_CODE, MONTH) pair of the cleaned CSV,
\* and as many rows as there are pairs.
C16_OneRowPerPair ==
    NodesLoaded =>
        /\ Len(RunRows(db, "country_months")) = Cardinality(CountryMonthPairs)
        /\ \A p \in CountryMonthPairs :
              \E i \in 1..Len(RunRows(db, "country_months")) :
                  /\ RunRows(db, "country_months")[i].cols[2] = p[1]
                  /\ RunRows(db, "country_months")[i].cols[3] = p[2]

\* C17: after create_nodes and create_inspections_and_relationships both
\* returned, every inspections row and every edge row of this run carries keys
\* (entity_id, country_code, month_name, cm_id, target_value) of vertex rows
\* this run inserted.
C17_ReferentialIntegrity ==
    FullyLoaded =>
        /\ \A c \in RunCols(db, "inspections") :
              /\ c[1] \in RunKeys(db, "entities")
              /\ c[2] \in RunKeys(db, "countries")
              /\ c[3] \in RunKeys(db, "months")
              /\ c[4] \in RunKeys(db, "target_proxies")
        /\ \A c \in RunCols(db, "shipped_in_edges") :
              c[1] \in RunKeys(db, "entities") /\ c[2] \in RunKeys(db, "months")
        /\ \A c \in RunCols(db, "is_from_edges") :
              c[1] \in RunKeys(db, "entities") /\ c[2] \in RunKeys(db, "countries")
        /\ \A c \in RunCols(db, "has_weather_edges") :
              c[1] \in RunKeys(db, "entities") /\ c[2] \in RunKeys(db, "country_months")
        /\ \A c \in RunCols(db, "has_inspection_result_edges") :
              c[1] \in RunKeys(db, "entities") /\ c[2] \in RunKeys(db, "target_proxies")

C17_Witness ==
    /\ FullyLoaded
    /\ Len(RunRows(db, "has_weather_edges")) = 2
    /\ Len(RunRows(db, "country_months")) = 2
    /\ Len(RunRows(db, "inspections")) = 3

\* C18: after create_inspections_and_relationships returned, inspections holds
\* one row of this run per row of the cleaned CSV, in the order of the CSV and
\* duplicates included, and each edge table holds as many rows of this run as
\* the cleaned CSV has distinct combinations of the table's source columns, one
\* for each combination.
C18_RowByRow ==
    FullyLoaded =>
        /\ Len(RunRows(db, "inspections")) = Len(df)
        /\ \A i \in 1..Len(df) :
              LET c == RunRows(db, "inspections")[i].cols
              IN /\ c[1] = df[i]["ENTY_ID"]
                 /\ c[2] = df[i]["CTRY_CODE"]
                 /\ c[3] = df[i]["MONTH"]
                 /\ c[4] = df[i]["TARGET_PROXY"]
        /\ LET combos == {<<df[i]["ENTY_ID"], df[i]["MONTH"]>> : i \in 1..Len(df)}
           IN /\ Len(RunRows(db, "shipped_in_edges")) = Cardinality(combos)
              /\ RunCols(db, "shipped_in_edges") = combos
        /\ LET combos == {<<df[i]["ENTY_ID"], df[i]["CTRY_CODE"]>> : i \in 1..Len(df)}
           IN /\ Len(RunRows(db, "is_from_edges")) = Cardinality(combos)
              /\ RunCols(db, "is_from_edges") = combos
        /\ LET combos == {<<df[i]["ENTY_ID"], df[i]["CTRY_CODE"], df[i]["MONTH"]>> :
                              i \in 1..Len(df)}
           IN /\ Len(RunRows(db, "has_weather_edges")) = Cardinality(combos)
              /\ RunCols(db, "has_weather_edges")
                    = {<<c[1], c[2] \o "_" \o c[3]>> : c \in combos}
        /\ LET combos == {<<df[i]["ENTY_ID"], df[i]["TARGET_PROXY"]>> : i \in 1..Len(df)}
           IN /\ Len(RunRows(db, "has_inspection_result_edges")) = Cardinality(combos)
              /\ RunCols(db, "has_inspection_result_edges") = combos

C18_Witness ==
    /\ FullyLoaded
    /\ Len(df) = 3
    /\ RunRows(db, "inspections")[1] = RunRows(db, "inspections")[3]
    /\ Len(RunRows(db, "shipped_in_edges")) = 2
    /\ Len(RunRows(db, "has_inspection_result_edges")) = 2

\* C19 as stated: for every inspections row of this run, has_pest is 1 exactly
\* when the target_proxies row of its target_proxy value is labelled 'pest', and
\* 0 exactly when it is labelled 'no_pest'.
C19_FlagMatchesLabel ==
    FullyLoaded =>
        \A c \in RunCols(db, "inspections") :
            \A tp \in RunCols(db, "target_proxies") :
                tp[1] = c[4] =>
                    /\ c[11] = 1 <=> tp[2] = "pest"
                    /\ c[11] = 0 <=> tp[2] = "no_pest"

NodeCommits ==
    {i \in 1..Len(sqlLog) : sqlLog[i][1] = "COMMIT" /\ sqlLog[i][2] = "create_nodes"}

VertexInsertsLogged ==
    {i \in 1..Len(sqlLog) : sqlLog[i][1] = "INSERT" /\ sqlLog[i][2] \in VertexTables}

CreateNodesRaised == Len(started) = 4 /\ raised # "None"

\* C20: create_nodes commits at most once, and after every vertex insert it
\* executes; in a run that create_nodes ended by raising, the committed tables
\* hold no row of this run, after close() the session holds none either, and
\* every table whose DELETE succeeded is still empty.
C20_VertexAllOrNothing ==
    /\ Cardinality(NodeCommits) <= 1
    /\ \A c \in NodeCommits : \A i \in VertexInsertsLogged : i < c
    /\ CreateNodesRaised =>
          /\ \A t \in Tables : RunRows(db, t) = <<>>
          /\ \A t \in Tables \ clearFailed : db[t] = <<>>
          /\ result # "running" => tx = db

C20_Witness ==
    /\ CreateNodesRaised
    /\ result = "raised"
    /\ Cardinality(VertexInsertsLogged) >= 3
    /\ sqlLog[Len(sqlLog)][3] = "error"
    /\ clearFailed = {"entities"}
    /\ Len(db["entities"]) = 1
    /\ db["countries"] = <<>>

(***************************************************************************)
(* SpecLoad: load_data called on a new PestDataAnalyzer, over CSV files of *)
(* up to MaxRows rows                                                      *)
(***************************************************************************)
MaxRows == 2

\* the rows of the files: an entity or the header text in ENTY_ID, a number,
\* the header text, other text or an infinity in TARGET_PROXY, a number or text
\* in the other numeric columns
LoadRows ==
    {CsvRow(e, "US", "JAN", tp, n) :
        e \in {"E1", "ENTY_ID"}, tp \in {"1", "TP", "x", "inf"}, n \in {"3", "x"}}

LoadFiles == UNION {[1..n -> LoadRows] : n \in 0..MaxRows}

\* a PestDataAnalyzer after __init__ (lines 12-31), nothing called yet
NewAnalyzer ==
    /\ attempt = 0
    /\ attemptLog = <<>>
    /\ sleepLog = <<>>
    /\ lastError = "None"
    /\ connection = "None"
    /\ cursor = "None"
    /\ raised = "None"
    /\ result = "running"
    /\ df = <<>>
    /\ tableIdx = 1
    /\ clearFailed = {}
    /\ started = <<>>
    /\ finished = <<>>
    /\ pgxRequests = <<>>
    /\ filesWritten = {}
    /\ pgxLog = <<>>
    /\ sqlLog = <<>>
    /\ closeCalls = 0
    /\ graph = NoGraph
    /\ pgx_session = "None"
    /\ pgx_instance = "None"
    /\ engineLog = <<>>
    /\ returned = NothingReturned
    /\ closeLog = <<>>
    /\ methodLog = <<>>

InitLoad ==
    /\ pc = "load_data"
    /\ csv \in LoadFiles
    /\ db = <<>>
    /\ tx = <<>>
    /\ dbDownFor = 0
    /\ pgxServer = "200"
    /\ closeFails = {}
    /\ NewAnalyzer
    /\ CopyIdle
    /\ SchemaIdle
    /\ RestIdle
    /\ PgqlIdle

NextLoad == LoadData

SpecLoad == InitLoad /\ [][NextLoad]_vars

Dropped == Len(csv) - Len(df)

\* C21: when load_data has returned, self.df is the file without its first row
\* if that row has 'TP' in TARGET_PROXY or 'ENTY_ID' in ENTY_ID, and the whole
\* file otherwise; the rows kept are in the order of the file, their text
\* columns unchanged, and in a numeric column a cell that is not a number is 0
\* while a cell that is a whole number keeps its value.
C21_CleaningKeepsRows ==
    "load_data" \in Range(finished) =>
        /\ Dropped \in {0, 1}
        /\ Dropped = 1 <=>
              (csv[1]["TARGET_PROXY"] = "TP" \/ csv[1]["ENTY_ID"] = "ENTY_ID")
        /\ \A i \in 1..Len(df) :
              /\ \A c \in CsvColumns \ numeric_columns : df[i][c] = csv[i + Dropped][c]
              /\ \A c \in numeric_columns :
                    /\ csv[i + Dropped][c] \notin Numerals => df[i][c] = 0
                    /\ csv[i + Dropped][c] = "3" => df[i][c] = 3
                    /\ csv[i + Dropped][c] = "1" => df[i][c] = 1

C21_Witness ==
    /\ "load_data" \in Range(finished)
    /\ Len(csv) = 2
    /\ csv[1]["TARGET_PROXY"] = "TP"
    /\ csv[2]["ENTY_ID"] = "ENTY_ID"
    /\ csv[2]["ENTY_EXAMS_30D"] = "x"
    /\ Len(df) = 1
    /\ df[1]["ENTY_ID"] = "ENTY_ID"
    /\ df[1]["ENTY_EXAMS_30D"] = 0

(***************************************************************************)
(* SpecAnalyzer: connect, create_projection, cleanup, close and            *)
(* run_full_analysis called on one PestDataAnalyzer in any order, each     *)
(* call one step.  It follows the handles and the PGX fields of the        *)
(* analyzer; what run_full_analysis does to the tables is followed by Spec.*)
(***************************************************************************)
MaxMethodCalls == 3

\* the variables no call changes here
pipelineVars == <<pc, attempt, attemptLog, sleepLog, lastError, raised, result,
                  csv, df, db, tableIdx, clearFailed, started, finished,
                  filesWritten, dbDownFor, pgxServer, sqlLog, returned,
                  closeFails>>

CanCall == Len(methodLog) < MaxMethodCalls

Called(method, outcome) == methodLog' = Append(methodLog, <<method, outcome>>)

\* close() with a try around cursor.close() only
Caught_CursorOnly(call) == call = "cursor.close"

\* the calls of close() that sit in a try whose except logs (lines 326-344)
Caught(call) == call \in {"pgx_session.close", "cursor.close", "connection.close"}

\* how close() ends after these attempts
CloseEnds(attempts) ==
    IF \E i \in 1..Len(attempts) : attempts[i][2] = "error" /\ ~Caught(attempts[i][1])
    THEN "raised" ELSE "returned"

\* connect(): the database refuses all attempts and the last error is raised,
\* or a connection is made and the PGX server is checked
Call_connect ==
    /\ CanCall
    /\ \/ /\ Called("connect", "raised")
          /\ UNCHANGED <<connection, cursor, graph, pgx_session, pgx_instance,
                         pgxLog, pgxRequests>>
       \/ /\ Called("connect", "returned")
          /\ connection' = "open"
          /\ cursor' = "open"
          /\ pgxRequests' = Append(pgxRequests, <<"connect", "/version">>)
          /\ pgxLog' = Append(pgxLog, pgxServer)
          /\ PgxFieldsAfterCheck
    /\ UNCHANGED <<tx, closeCalls, engineLog, closeLog, pipelineVars, others>>

Call_create_projection ==
    /\ CanCall
    /\ Called("create_projection", "returned")
    /\ graph' = NoGraph
    /\ UNCHANGED <<connection, cursor, tx, pgx_session, pgx_instance, pgxLog,
                   pgxRequests, closeCalls, engineLog, closeLog, pipelineVars,
                   others>>

Call_cleanup ==
    /\ CanCall
    /\ Called("cleanup", "returned")
    /\ engineLog' = engineLog \o CleanupCalls
    /\ UNCHANGED <<connection, cursor, tx, graph, pgx_session, pgx_instance,
                   pgxLog, pgxRequests, closeCalls, closeLog, pipelineVars,
                   others>>

Call_close ==
    /\ CanCall
    /\ Called("close", CloseEnds(CloseAttempts(cursor, connection)))
    /\ close
    /\ UNCHANGED <<graph, pgx_session, pgx_instance, pgxLog, pgxRequests,
                   pipelineVars, others>>

\* run_full_analysis: connect() raises and close() finds the handles as they
\* were, or connect() returns, the later steps return or one of them raises,
\* and close() closes the handles connect() made
Call_run_full_analysis ==
    /\ CanCall
    /\ \/ /\ Called("run_full_analysis", "raised")
          /\ close
          /\ UNCHANGED <<graph, pgx_session, pgx_instance, pgxLog, pgxRequests>>
       \/ /\ \E outcome \in {"returned", "raised"} :
                Called("run_full_analysis", outcome)
          /\ pgxRequests' = Append(pgxRequests, <<"connect", "/version">>)
          /\ pgxLog' = Append(pgxLog, pgxServer)
          /\ PgxFieldsAfterCheck
          /\ closeCalls' = closeCalls + 1
          /\ engineLog' = engineLog
          /\ closeLog' = closeLog \o CloseAttempts("open", "open")
          /\ cursor' = "closed"
          /\ connection' = "closed"
          /\ tx' = db
    /\ UNCHANGED <<pipelineVars, others>>

InitAnalyzer ==
    /\ pc = "idle"
    /\ csv = <<>>
    /\ db = <<>>
    /\ tx = <<>>
    /\ dbDownFor = 0
    /\ pgxServer \in PgxOutcomes
    /\ closeFails \in SUBSET Handles
    /\ NewAnalyzer
    /\ CopyIdle
    /\ SchemaIdle
    /\ RestIdle
    /\ PgqlIdle

NextAnalyzer ==
    \/ Call_connect
    \/ Call_create_projection
    \/ Call_cleanup
    \/ Call_close
    \/ Call_run_full_analysis

SpecAnalyzer == InitAnalyzer /\ [][NextAnalyzer]_vars

\* C22: whatever was called, graph, pgx_session and pgx_instance are None, and
\* neither cleanup() called graph.destroy() nor close() pgx_session.close().
C22_PgxFieldsNone ==
    /\ graph = NoGraph
    /\ pgx_session = "None"
    /\ pgx_instance = "None"
    /\ "graph.destroy" \notin Range(engineLog)
    /\ "pgx_session.close" \notin Range(engineLog)

C22_Witness ==
    /\ Len(methodLog) = 3
    /\ methodLog[1] = <<"connect", "returned">>
    /\ methodLog[2] = <<"cleanup", "returned">>
    /\ methodLog[3] = <<"close", "returned">>
    /\ pgxLog = <<"200">>
    /\ connection = "closed"

CloseCallsLogged == {i \in 1..Len(methodLog) : methodLog[i][1] = "close"}

\* C25: every call of close() returns, however often it is called and whatever
\* the close() calls on cursor and connection come to; closing a handle that
\* was closed before is an error that close() catches; and the connection is
\* closed only after the cursor: a connection.close() in the log directly
\* follows a cursor.close().
C25_CloseNeverRaises ==
    /\ [](/\ \A i \in CloseCallsLogged : methodLog[i][2] = "returned"
          /\ \A i \in 1..Len(closeLog) :
                closeLog[i][1] = "connection.close" =>
                    i > 1 /\ closeLog[i - 1][1] = "cursor.close"
          /\ \A i \in 1..Len(closeLog) :
                closeLog[i][1] = "cursor.close" =>
                    i < Len(closeLog) /\ closeLog[i + 1][1] = "connection.close")
    /\ [][(/\ Len(methodLog') > Len(methodLog)
           /\ methodLog'[Len(methodLog')][1] = "close"
           /\ connection = "closed") =>
              /\ closeLog' = closeLog \o << <<"cursor.close", "error">>,
                                            <<"connection.close", "error">> >>
              /\ methodLog'[Len(methodLog')][2] = "returned"]_vars

C25_Witness ==
    /\ methodLog = << <<"run_full_analysis", "returned">>, <<"close", "returned">>,
                      <<"close", "returned">> >>
    /\ closeCalls = 3
    /\ Len(closeLog) = 6
    /\ closeLog[2] = <<"connection.close", "ok">>
    /\ closeLog[4] = <<"connection.close", "error">>
    /\ closeLog[6] = <<"connection.close", "error">>

(***************************************************************************)
(* SpecAlgo: the feature functions of algo1_structural.py,                 *)
(* algo2_embeddings_node2vec.py and algo3_graphsage.py, called with an     *)
(* analyzer on which the caller has set graph, pgx_session and cursor.     *)
(* Each call is one step.  A graph is what the functions ask of it: the    *)
(* entity ids its entity query returns, in order, the ids for which        *)
(* get_vertex returns a vertex, and the vertices DeepWalk has an embedding *)
(* for.  A value the engine computed is "pgx"; the defaults the functions  *)
(* fill in are the texts of their literals.                                *)
(***************************************************************************)
MaxEntities == 2
MaxDim == 2
MaxFeatureCalls == 2

EntityIds == {"E1", "E2", "E3"}

\* the results the entity query can have: entity_id is the key of entities
EntityLists ==
    {q \in UNION {[1..n -> EntityIds] : n \in 0..MaxEntities} :
        \A i, j \in 1..Len(q) : i # j => q[i] # q[j]}

LoadedGraphs ==
    {[loaded |-> TRUE, entities |-> q, vertices |-> v, embedded |-> m] :
        q \in EntityLists, v \in SUBSET EntityIds, m \in SUBSET EntityIds}

\* a graph whose vertices are among its entities and whose embeddings are of
\* its vertices
WellFormed(g) == g.vertices \subseteq Range(g.entities) /\ g.embedded \subseteq g.vertices

EmbeddingMethods == {"deepwalk", "node2vec"}

\* the functions make the Analyst before they look at self.graph
BeforeCheck_AnalystFirst == <<"logger.info", "Analyst">>

\* what every function does before `if not self.graph`: one log line
BeforeCheck == <<"logger.info">>

\* the entity query keeps only the entities the graph has a vertex for
Queried_VerticesOnly(g) == SelectSeq(g.entities, LAMBDA e : e \in g.vertices)

\* vertices = self.graph.query_pgql(...).to_pandas(); entity_df
Queried(g) == g.entities

\* self.graph.get_vertex(entity_id), once for every row of entity_df
Lookups(g) == [i \in 1..Len(Queried(g)) |-> "graph.get_vertex"]

\* result.get(vertex) if vertex else default
ValueOr(g, e, default) == IF e \in g.vertices THEN "pgx" ELSE default

\* the nine feature columns of extract_structural_features, in the order they
\* are added: pageRank, degree, betweenness, closeness, eigenvector,
\* triangleCount, localClusteringCoefficient, communityId, coreValue
StructuralCells(g, e) ==
    <<ValueOr(g, e, "0.0"), ValueOr(g, e, "0"), ValueOr(g, e, "0.0"),
      ValueOr(g, e, "0.0"), ValueOr(g, e, "0.0"), ValueOr(g, e, "0"),
      ValueOr(g, e, "0.0"), ValueOr(g, e, "-1"), ValueOr(g, e, "0")>>

StructuralDefaults == <<"0.0", "0", "0.0", "0.0", "0.0", "0", "0.0", "-1", "0">>

\* [0.0] * embedding_dim
ZeroVector(dim) == [i \in 1..dim |-> "0.0"]

\* the embedding_vectors entry of one entity (lines 55-60)
EmbeddingCells(g, e, dim) ==
    IF e \in g.vertices /\ e \in g.embedded THEN [i \in 1..dim |-> "pgx"]
    ELSE ZeroVector(dim)

\* the four columns of extract_node_embeddings_alternative (lines 124-135)
AlternativeCells(g, e) ==
    IF e \in g.vertices THEN <<"pgx", "pgx", "pgx", "pgx">>
    ELSE <<"0.0", "0.0", "0.0", "0.0">>

\* pagerank, degree, betweenness, clustering and the three label columns of
\* run_graphsage_alternative (lines 175-210)
PredictionCells(g, e) ==
    <<ValueOr(g, e, "0.0"), ValueOr(g, e, "0"), ValueOr(g, e, "0.0"),
      ValueOr(g, e, "0.0"), "db", "db", "db">>

\* entity_df['nodeId'] = range(len(entity_df))
nodeId(i) == i - 1

CanRun == Len(methodLog) < MaxFeatureCalls

Ran(function, outcome) == methodLog' = Append(methodLog, <<function, outcome>>)

\* the SELECT both run_graphsage functions send through self.cursor
LabelQuery == <<"SELECT", "entities", "ok">>

\* what no feature function assigns
algoFrame == <<pc, attempt, attemptLog, sleepLog, lastError, connection, cursor,
               raised, result, csv, df, db, tx, tableIdx, clearFailed, started,
               finished, pgxRequests, dbDownFor, pgxServer, pgxLog, closeCalls,
               graph, pgx_session, pgx_instance, closeFails, closeLog, others>>

\* raise ValueError("Graph must be loaded ...")
GraphMissing(function) ==
    /\ ~graph.loaded
    /\ Ran(function, "raised")
    /\ engineLog' = engineLog \o BeforeCheck
    /\ returned' = [NothingReturned EXCEPT !.function = function,
                                            !.raised = "ValueError"]
    /\ UNCHANGED <<sqlLog, filesWritten>>

extract_structural_features ==
    /\ CanRun
    /\ \/ GraphMissing("extract_structural_features")
       \/ /\ graph.loaded
          /\ Ran("extract_structural_features", "returned")
          /\ engineLog' = engineLog \o BeforeCheck
                \o <<"Analyst", "graph.query_pgql", "analyst.pagerank">>
                \o Lookups(graph) \o Lookups(graph)
                \o <<"analyst.betweenness_centrality">> \o Lookups(graph)
                \o <<"analyst.closeness_centrality_unit_length">> \o Lookups(graph)
                \o <<"analyst.eigenvector_centrality">> \o Lookups(graph)
                \o <<"analyst.count_triangles">> \o Lookups(graph)
                \o <<"analyst.local_clustering_coefficient">> \o Lookups(graph)
                \o <<"analyst.partition_conductance_minimization">> \o Lookups(graph)
                \o <<"analyst.k_core">> \o Lookups(graph)
          /\ returned' =
                [function |-> "extract_structural_features", raised |-> "None",
                 embedding_dim |-> 0,
                 table |-> [i \in 1..Len(Queried(graph)) |->
                              [entity_id |-> Queried(graph)[i], nodeId |-> nodeId(i),
                               cells |-> StructuralCells(graph, Queried(graph)[i])]]]
          /\ UNCHANGED <<sqlLog, filesWritten>>
    /\ UNCHANGED algoFrame

\* extract_node_embeddings(method, embedding_dim).  An unknown method raises
\* after the entity query.  With no entity, pd.DataFrame([]) has no column and
\* the assignment of embedding_dim column names (line 64) raises ValueError.
extract_node_embeddings ==
    /\ CanRun
    /\ \E method \in EmbeddingMethods, embedding_dim \in 1..MaxDim :
        \/ GraphMissing("extract_node_embeddings")
        \/ /\ graph.loaded
           /\ method # "deepwalk"
           /\ Ran("extract_node_embeddings", "raised")
           /\ engineLog' = engineLog \o BeforeCheck \o <<"graph.query_pgql">>
           /\ returned' = [NothingReturned EXCEPT
                             !.function = "extract_node_embeddings",
                             !.raised = "ValueError",
                             !.embedding_dim = embedding_dim]
           /\ UNCHANGED <<sqlLog, filesWritten>>
        \/ /\ graph.loaded
           /\ method = "deepwalk"
           /\ engineLog' = engineLog \o BeforeCheck
                 \o <<"graph.query_pgql", "DeepWalkModel.fit_model">> \o Lookups(graph)
           /\ IF Len(Queried(graph)) = 0
              THEN /\ Ran("extract_node_embeddings", "raised")
                   /\ returned' = [NothingReturned EXCEPT
                                     !.function = "extract_node_embeddings",
                                     !.raised = "ValueError",
                                     !.embedding_dim = embedding_dim]
              ELSE /\ Ran("extract_node_embeddings", "returned")
                   /\ returned' =
                        [function |-> "extract_node_embeddings", raised |-> "None",
                         embedding_dim |-> embedding_dim,
                         table |-> [i \in 1..Len(Queried(graph)) |->
                            [entity_id |-> Queried(graph)[i], nodeId |-> nodeId(i),
                             cells |-> EmbeddingCells(graph, Queried(graph)[i],
                                                      embedding_dim)]]]
           /\ UNCHANGED <<sqlLog, filesWritten>>
    /\ UNCHANGED algoFrame

extract_node_embeddings_alternative ==
    /\ CanRun
    /\ \/ GraphMissing("extract_node_embeddings_alternative")
       \/ /\ graph.loaded
          /\ Ran("extract_node_embeddings_alternative", "returned")
          /\ engineLog' = engineLog \o BeforeCheck
                \o <<"Analyst", "graph.query_pgql", "analyst.pagerank",
                     "analyst.betweenness_centrality",
                     "analyst.closeness_centrality_unit_length">>
                \o Lookups(graph)
          /\ returned' =
                [function |-> "extract_node_embeddings_alternative",
                 raised |-> "None", embedding_dim |-> 0,
                 table |-> [i \in 1..Len(Queried(graph)) |->
                              [entity_id |-> Queried(graph)[i], nodeId |-> nodeId(i),
                               cells |-> AlternativeCells(graph, Queried(graph)[i])]]]
          /\ UNCHANGED <<sqlLog, filesWritten>>
    /\ UNCHANGED algoFrame

\* run_graphsage_pgx: the label query is taken to return the entities of the
\* graph in the order of the entity query; a row is kept only for an entity
\* with a vertex and an embedding (lines 99-107); the file is written whatever
\* the number of rows
run_graphsage_pgx ==
    /\ CanRun
    /\ \/ GraphMissing("run_graphsage_pgx")
       \/ /\ graph.loaded
          /\ Ran("run_graphsage_pgx", "returned")
          /\ engineLog' = engineLog \o BeforeCheck \o <<"graph.query_pgql">>
                \o Lookups(graph) \o <<"cursor.execute">>
                \o <<"SupervisedGraphWiseModel", "DeepWalkModel.fit_model">>
                \o Lookups(graph) \o <<"to_csv">>
          /\ sqlLog' = Append(sqlLog, LabelQuery)
          /\ filesWritten' = filesWritten \cup {"/app/graphwise_entity_features.csv"}
          /\ returned' =
                [function |-> "run_graphsage_pgx", raised |-> "None",
                 embedding_dim |-> 64,
                 table |-> LET kept == SelectSeq(Queried(graph),
                                          LAMBDA e : e \in graph.vertices
                                                     /\ e \in graph.embedded)
                           IN [i \in 1..Len(kept) |->
                                 [entity_id |-> kept[i], nodeId |-> nodeId(i),
                                  cells |-> <<"db", "db", "pgx">>]]]
    /\ UNCHANGED algoFrame

\* run_graphsage_alternative: pagerank.get, betweenness.get and clustering.get
\* are given get_vertex's result unguarded (lines 175, 183, 188); for an entity
\* without a vertex the engine either answers nothing, and the value is 0.0,
\* or raises
run_graphsage_alternative ==
    /\ CanRun
    /\ \/ GraphMissing("run_graphsage_alternative")
       \/ /\ graph.loaded
          /\ Range(Queried(graph)) \ graph.vertices # {}
          /\ Ran("run_graphsage_alternative", "raised")
          /\ engineLog' = engineLog \o BeforeCheck
                \o <<"Analyst", "graph.query_pgql", "analyst.pagerank">>
                \o Lookups(graph)
          /\ returned' = [NothingReturned EXCEPT
                            !.function = "run_graphsage_alternative",
                            !.raised = "Exception"]
          /\ UNCHANGED <<sqlLog, filesWritten>>
       \/ /\ graph.loaded
          /\ Ran("run_graphsage_alternative", "returned")
          /\ engineLog' = engineLog \o BeforeCheck
                \o <<"Analyst", "graph.query_pgql", "analyst.pagerank">>
                \o Lookups(graph) \o Lookups(graph) \o Lookups(graph)
                \o <<"analyst.betweenness_centrality">> \o Lookups(graph)
                \o <<"analyst.local_clustering_coefficient">> \o Lookups(graph)
                \o <<"cursor.execute", "to_csv">>
          /\ sqlLog' = Append(sqlLog, LabelQuery)
          /\ filesWritten' = filesWritten \cup {"/app/pest_prediction_features.csv"}
          /\ returned' =
                [function |-> "run_graphsage_alternative", raised |-> "None",
                 embedding_dim |-> 0,
                 table |-> [i \in 1..Len(Queried(graph)) |->
                              [entity_id |-> Queried(graph)[i], nodeId |-> nodeId(i),
                               cells |-> PredictionCells(graph, Queried(graph)[i])]]]
    /\ UNCHANGED algoFrame

InitAlgo ==
    /\ pc = "idle"
    /\ csv = <<>>
    /\ db = <<>>
    /\ tx = <<>>
    /\ dbDownFor = 0
    /\ pgxServer = "200"
    /\ closeFails = {}
    /\ attempt = 0
    /\ attemptLog = <<>>
    /\ sleepLog = <<>>
    /\ lastError = "None"
    /\ connection = "open"
    /\ cursor = "open"
    /\ raised = "None"
    /\ result = "running"
    /\ df = <<>>
    /\ tableIdx = 1
    /\ clearFailed = {}
    /\ started = <<>>
    /\ finished = <<>>
    /\ pgxRequests = <<>>
    /\ filesWritten = {}
    /\ pgxLog = <<>>
    /\ sqlLog = <<>>
    /\ closeCalls = 0
    /\ \/ /\ graph = NoGraph
          /\ pgx_session \in {"None", "session"}
       \/ /\ graph \in {g \in LoadedGraphs : WellFormed(g)}
          /\ pgx_session = "session"
    /\ pgx_instance = pgx_session
    /\ engineLog = <<>>
    /\ returned = NothingReturned
    /\ closeLog = <<>>
    /\ methodLog = <<>>
    /\ CopyIdle
    /\ SchemaIdle
    /\ RestIdle
    /\ PgqlIdle

NextAlgo ==
    \/ extract_structural_features
    \/ extract_node_embeddings
    \/ extract_node_embeddings_alternative
    \/ run_graphsage_pgx
    \/ run_graphsage_alternative

SpecAlgo == InitAlgo /\ [][NextAlgo]_vars

\* C23: a feature function called while self.graph is None raises ValueError,
\* and all it has done by then is write its first log line: no call on the
\* analytics engine, the graph or the session, no statement on the cursor, no
\* file written.
C23_GraphMustBeLoaded ==
    /\ [](~graph.loaded =>
            /\ \A i \in 1..Len(methodLog) : methodLog[i][2] = "raised"
            /\ Len(methodLog) > 0 => returned.raised = "ValueError"
            /\ Range(engineLog) \subseteq {"logger.info"}
            /\ Len(engineLog) = Len(methodLog)
            /\ sqlLog = <<>>
            /\ filesWritten = {})
    /\ [][(~graph.loaded /\ methodLog' # methodLog) =>
            /\ returned'.function = methodLog'[Len(methodLog')][1]
            /\ returned'.raised = "ValueError"
            /\ returned'.table = <<>>]_vars

C23_Witness ==
    /\ ~graph.loaded
    /\ methodLog = << <<"run_graphsage_pgx", "raised">>,
                      <<"extract_structural_features", "raised">> >>
    /\ returned.raised = "ValueError"

\* C24: the table extract_structural_features returns, and the one
\* extract_node_embeddings returns for 'deepwalk', has one row for every
\* entity of the entity query, in the query's order, numbered 0..n-1; the row
\* of an entity without a vertex holds the defaults: 0.0 or 0 in the feature
\* columns and -1 in communityId, or embedding_dim zeros.
C24_OneRowPerEntity ==
    (returned.raised = "None"
        /\ returned.function \in {"extract_structural_features",
                                  "extract_node_embeddings"}) =>
        /\ Len(returned.table) = Len(graph.entities)
        /\ \A i \in 1..Len(returned.table) :
            /\ returned.table[i].entity_id = graph.entities[i]
            /\ returned.table[i].nodeId = i - 1
            /\ graph.entities[i] \notin graph.vertices =>
                 IF returned.function = "extract_structural_features"
                 THEN returned.table[i].cells = StructuralDefaults
                 ELSE /\ Len(returned.table[i].cells) = returned.embedding_dim
                      /\ \A k \in 1..returned.embedding_dim :
                            returned.table[i].cells[k] = "0.0"

C24_Witness ==
    /\ methodLog = << <<"extract_structural_features", "returned">>,
                      <<"extract_node_embeddings", "returned">> >>
    /\ graph.entities = <<"E2", "E1">>
    /\ graph.vertices = {"E1"}
    /\ returned.embedding_dim = 2
    /\ returned.table[1] = [entity_id |-> "E2", nodeId |-> 0, cells |-> <<"0.0", "0.0">>]
    /\ returned.table[2] = [entity_id |-> "E1", nodeId |-> 1, cells |-> <<"pgx", "pgx">>]

(***************************************************************************)
(* copy_to_freepdb1.py: the CREATE TABLE statement copy_table builds       *)
(***************************************************************************)
\* data_precision of a column the catalog reports no precision for (None)
NoPrecision == 0

\* the rows of user_tab_columns for one table, ORDER BY column_id (lines 42-49)
ColumnsQuery(cols) ==
    [i \in 1..Cardinality(cols) |-> CHOOSE c \in cols : c.column_id = i]

\* a builder that leaves the length out of VARCHAR2 and the precision out of NUMBER
col_def_TypeNameOnly(col) ==
    IF col.nullable = "N"
    THEN col.column_name \o " " \o col.data_type \o " NOT NULL"
    ELSE col.column_name \o " " \o col.data_type

\* lines 54-67: the definition of one column
col_def(col) ==
    LET typed ==
            IF col.data_type = "VARCHAR2"
            THEN col.column_name \o " VARCHAR2(" \o ToString(col.data_length) \o ")"
            ELSE IF col.data_type = "NUMBER"
                 THEN IF col.data_precision # NoPrecision
                      THEN col.column_name \o " NUMBER("
                               \o ToString(col.data_precision) \o ")"
                      ELSE col.column_name \o " NUMBER"
                 ELSE col.column_name \o " " \o col.data_type
    IN IF col.nullable = "N" THEN typed \o " NOT NULL" ELSE typed

\* lines 52-69: the list col_defs
col_defs(cols) == [i \in 1..Len(cols) |-> col_def(cols[i])]

\* ', '.join(parts)
Join(parts) ==
    LET F[i \in 0..Len(parts)] ==
            IF i = 0 THEN ""
            ELSE IF i = 1 THEN parts[1]
                 ELSE F[i - 1] \o ", " \o parts[i]
    IN F[Len(parts)]

\* line 71
CreateSql(table_name, cols) ==
    "CREATE TABLE " \o table_name \o " (" \o Join(col_defs(cols)) \o ")"

(***************************************************************************)
(* SpecSchema: the builder applied to every catalog of up to MaxCols       *)
(* columns                                                                 *)
(***************************************************************************)
MaxCols == 2

ColumnNames == [i \in 1..(MaxCols + 1) |-> "C" \o ToString(i)]

ColumnRows(i) ==
    [column_id : {i}, column_name : {ColumnNames[i]},
     data_type : {"VARCHAR2", "NUMBER", "DATE"}, data_length : {7, 50},
     data_precision : {NoPrecision, 10}, nullable : {"Y", "N"}]

\* every set of n column rows with column_id 1..n
Catalogs(n) ==
    LET F[i \in 0..n] ==
            IF i = 0 THEN {{}}
            ELSE {cs \cup {c} : cs \in F[i - 1], c \in ColumnRows(i)}
    IN F[n]

EtlIdle ==
    /\ pc = "idle"
    /\ attempt = 0
    /\ attemptLog = <<>>
    /\ sleepLog = <<>>
    /\ lastError = "None"
    /\ connection = "None"
    /\ cursor = "None"
    /\ raised = "None"
    /\ result = "running"
    /\ csv = <<>>
    /\ df = <<>>
    /\ db = <<>>
    /\ tx = <<>>
    /\ tableIdx = 1
    /\ clearFailed = {}
    /\ started = <<>>
    /\ finished = <<>>
    /\ pgxRequests = <<>>
    /\ filesWritten = {}
    /\ dbDownFor = 0
    /\ pgxServer = "200"
    /\ pgxLog = <<>>
    /\ sqlLog = <<>>
    /\ closeCalls = 0
    /\ closeFails = {}
    /\ graph = NoGraph
    /\ pgx_session = "None"
    /\ pgx_instance = "None"
    /\ engineLog = <<>>
    /\ returned = NothingReturned
    /\ closeLog = <<>>
    /\ methodLog = <<>>

InitSchema ==
    /\ \E n \in 0..MaxCols : \E cs \in Catalogs(n) :
          catalog = [table_name |-> "entities", cols |-> cs]
    /\ built = NotBuilt
    /\ EtlIdle
    /\ CopyIdle
    /\ RestIdle
    /\ PgqlIdle

\* lines 40-71 on one catalog
BuildCreateTable ==
    /\ ~built.done
    /\ built' = [done |-> TRUE,
                 col_defs |-> col_defs(ColumnsQuery(catalog.cols)),
                 sql |-> CreateSql(catalog.table_name, ColumnsQuery(catalog.cols))]
    /\ UNCHANGED <<catalog, etlVars, copyVars, restVars, pgqlVars>>

NextSchema == BuildCreateTable

SpecSchema == InitSchema /\ [][NextSchema]_vars

(***************************************************************************)
(* Properties of the CREATE TABLE statement                                *)
(***************************************************************************)
ReportedType(c) ==
    CASE c.data_type = "VARCHAR2" -> "VARCHAR2(" \o ToString(c.data_length) \o ")"
      [] c.data_type = "NUMBER" /\ c.data_precision > 0 ->
            "NUMBER(" \o ToString(c.data_precision) \o ")"
      [] OTHER -> c.data_type

NotNullSuffix(c) == IF c.nullable = "N" THEN " NOT NULL" ELSE ""

\* C9: the CREATE TABLE statement has exactly one column definition per column
\* of the catalog, the definition at position i is that of the column with
\* column_id i, it gives the reported type (VARCHAR2 with its length, NUMBER
\* with its precision when one is reported, any other type by name) and ends
\* in NOT NULL exactly when the column is reported as not nullable.
C9_SchemaColumnsMatch ==
    built.done =>
        /\ Len(built.col_defs) = Cardinality(catalog.cols)
        /\ \A c \in catalog.cols :
              built.col_defs[c.column_id]
                  = c.column_name \o " " \o ReportedType(c) \o NotNullSuffix(c)
        /\ built.sql = "CREATE TABLE " \o catalog.table_name \o " ("
                           \o Join(built.col_defs) \o ")"

C9_Witness ==
    /\ built.done
    /\ Cardinality(catalog.cols) = 2
    /\ \E c \in catalog.cols :
          c.column_id = 2 /\ c.data_type = "NUMBER" /\ c.data_precision = 10
              /\ c.nullable = "N"
    /\ \E c \in catalog.cols : c.column_id = 1 /\ c.data_type = "VARCHAR2"
    /\ built.sql = "CREATE TABLE entities (C1 VARCHAR2(50), C2 NUMBER(10) NOT NULL)"

(***************************************************************************)
(* copy_to_freepdb1.py: the script and copy_table                          *)
(***************************************************************************)
\* lines 107-118
copy_tables == << "entities", "countries", "months", "inspections",
                  "target_proxies", "country_months", "shipped_in_edges",
                  "is_from_edges", "has_weather_edges",
                  "has_inspection_result_edges" >>

CopyTables == Range(copy_tables)

\* how many statements of one run of the script may fail for reasons outside
\* the script (lock, network, privileges)
MaxCopyFaults == 1

\* a table of FREE: its rows in user_tab_columns and its rows (cells as text,
\* "NULL" for a null)
GraphColumns ==
    { [column_id |-> 1, column_name |-> "ID", data_type |-> "VARCHAR2",
       data_length |-> 50, data_precision |-> NoPrecision, nullable |-> "N"],
      [column_id |-> 2, column_name |-> "VAL", data_type |-> "NUMBER",
       data_length |-> 22, data_precision |-> 10, nullable |-> "Y"] }

SourceTable(rows) == [exists |-> TRUE, cols |-> GraphColumns, rows |-> rows]

NoTable == [exists |-> FALSE, cols |-> {}, rows |-> <<>>]

\* FREE before the script runs: a loaded schema with an empty table, a table
\* with a null number and a table that is missing; or one row everywhere
SourceDatabases ==
    { [t \in CopyTables |->
          CASE t = "months" -> SourceTable(<<>>)
            [] t = "countries" -> SourceTable(<< <<"MX", "NULL">> >>)
            [] t = "target_proxies" -> NoTable
            [] OTHER -> SourceTable(<< <<"a", "1">>, <<"b", "2">> >>)],
      [t \in CopyTables |-> SourceTable(<< <<"a", "1">> >>)] }

DestTable(ddl, rows) == [exists |-> TRUE, ddl |-> ddl, rows |-> rows]

NoDestTable == [exists |-> FALSE, ddl |-> "", rows |-> <<>>]

\* FREEPDB1 before the script runs: no table, the tables of an earlier copy, or
\* only entities
DestDatabases ==
    { [t \in CopyTables |-> NoDestTable],
      [t \in CopyTables |-> DestTable("earlier copy", << <<"old", "0">> >>)],
      [t \in CopyTables |->
          IF t = "entities" THEN DestTable("earlier copy", << <<"old", "0">> >>)
          ELSE NoDestTable] }

table_name == copy_tables[tblIdx]

\* pd.read_sql and [tuple(row) for row in df.values] (lines 29, 86): a null of a
\* NUMBER column comes back as NaN, every other cell as it is
Frame(src) ==
    LET cols == ColumnsQuery(src.cols)
    IN [r \in 1..Len(src.rows) |->
           [i \in 1..Len(src.rows[r]) |->
               IF src.rows[r][i] = "NULL" /\ cols[i].data_type = "NUMBER"
               THEN "nan" ELSE src.rows[r][i]]]

HasNaN(row) == \E i \in 1..Len(row) : row[i] = "nan"

\* the row FREEPDB1 stores for a bound tuple, when it accepts it
Stored(row) == [i \in 1..Len(row) |-> IF row[i] = "nan" THEN "NULL" ELSE row[i]]

StoredRows(frame, n) == [r \in 1..n |-> Stored(frame[r])]

InjectFault == faults < MaxCopyFaults /\ faults' = faults + 1

\* the loop of line 121 moves to the next table
NextTable ==
    /\ tblIdx' = tblIdx + 1
    /\ cpc' = IF tblIdx = Len(copy_tables) THEN "verify" ELSE "read"

\* the except clause of line 125 stopping the loop instead of continuing
Except_StopsLoop(log) ==
    /\ copyLog' = Append(log, <<"ERROR", table_name>>)
    /\ tblIdx' = Len(copy_tables) + 1
    /\ cpc' = "verify"

\* lines 124-125: an exception of copy_table is printed and the loop goes on
Except(log) ==
    /\ copyLog' = Append(log, <<"ERROR", table_name>>)
    /\ NextTable

\* lines 100-104
CopyConnect ==
    /\ cpc = "start"
    /\ \/ /\ cpc' = "read"
          /\ tblIdx' = 1
       \/ /\ cpc' = "crashed"                    \* connect_to_db raises
          /\ UNCHANGED tblIdx
    /\ UNCHANGED <<srcDb, destDb, destTx, cdf, columns, create_sql, copyLog,
                   stmtLog, faults>>
    /\ UNCHANGED <<etlVars, schemaVars, restVars, pgqlVars>>

\* copy_table dropping the destination table before it reads the source
ReadSource_AfterDrop ==
    /\ cpc = "read"
    /\ IF destTx[table_name].exists
       THEN /\ destTx' = [destTx EXCEPT ![table_name] = NoDestTable]
            /\ destDb' = destTx'
            /\ stmtLog' = Append(stmtLog, <<"DROP", table_name, "ok">>)
       ELSE /\ stmtLog' = Append(stmtLog, <<"DROP", table_name, "error">>)
            /\ UNCHANGED <<destTx, destDb>>
    /\ LET entered == Append(copyLog, <<"Copying", table_name>>)
       IN \/ /\ srcDb[table_name].exists
             /\ cdf' = Frame(srcDb[table_name])
             /\ copyLog' = Append(entered, <<"Read", table_name>>)
             /\ cpc' = "drop"
             /\ UNCHANGED <<tblIdx, faults>>
          \/ /\ IF srcDb[table_name].exists THEN InjectFault ELSE UNCHANGED faults
             /\ Except(entered)
             /\ UNCHANGED cdf
    /\ UNCHANGED <<srcDb, columns, create_sql>>
    /\ UNCHANGED <<etlVars, schemaVars, restVars, pgqlVars>>

\* lines 26-30: copy_table is entered and reads the source table
ReadSource ==
    /\ cpc = "read"
    /\ LET entered == Append(copyLog, <<"Copying", table_name>>)
       IN \/ /\ srcDb[table_name].exists
             /\ cdf' = Frame(srcDb[table_name])
             /\ copyLog' = Append(entered, <<"Read", table_name>>)
             /\ cpc' = "drop"
             /\ UNCHANGED <<tblIdx, faults>>
          \/ /\ IF srcDb[table_name].exists THEN InjectFault ELSE UNCHANGED faults
             /\ Except(entered)
             /\ UNCHANGED cdf
    /\ UNCHANGED <<srcDb, destDb, destTx, columns, create_sql, stmtLog>>
    /\ UNCHANGED <<etlVars, schemaVars, restVars, pgqlVars>>

\* a DROP TABLE whose failure leaves copy_table
DropTable_Raises ==
    /\ cpc = "drop"
    /\ IF destTx[table_name].exists
       THEN /\ destTx' = [destTx EXCEPT ![table_name] = NoDestTable]
            /\ destDb' = destTx'
            /\ copyLog' = Append(copyLog, <<"Dropped", table_name>>)
            /\ stmtLog' = Append(stmtLog, <<"DROP", table_name, "ok">>)
            /\ cpc' = "columns"
            /\ UNCHANGED <<tblIdx, faults>>
       ELSE /\ stmtLog' = Append(stmtLog, <<"DROP", table_name, "error">>)
            /\ Except(copyLog)
            /\ UNCHANGED <<destTx, destDb, faults>>
    /\ UNCHANGED <<srcDb, cdf, columns, create_sql>>
    /\ UNCHANGED <<etlVars, schemaVars, restVars, pgqlVars>>

\* lines 32-38: DROP TABLE on the destination; DDL commits the transaction of
\* dest_conn; a failure (no such table, or another error) is passed over
DropTable ==
    /\ cpc = "drop"
    /\ \/ /\ destTx[table_name].exists
          /\ destTx' = [destTx EXCEPT ![table_name] = NoDestTable]
          /\ destDb' = destTx'
          /\ copyLog' = Append(copyLog, <<"Dropped", table_name>>)
          /\ stmtLog' = Append(stmtLog, <<"DROP", table_name, "ok">>)
          /\ UNCHANGED faults
       \/ /\ IF destTx[table_name].exists THEN InjectFault ELSE UNCHANGED faults
          /\ stmtLog' = Append(stmtLog, <<"DROP", table_name, "error">>)
          /\ UNCHANGED <<destTx, destDb, copyLog>>
    /\ cpc' = "columns"
    /\ UNCHANGED <<tblIdx, srcDb, cdf, columns, create_sql>>
    /\ UNCHANGED <<etlVars, schemaVars, restVars, pgqlVars>>

\* lines 40-71: the column rows of the source and the statement built from them
FetchColumns ==
    /\ cpc = "columns"
    /\ \/ /\ columns' = ColumnsQuery(srcDb[table_name].cols)
          /\ create_sql' = CreateSql(table_name, columns')
          /\ cpc' = "create"
          /\ UNCHANGED <<tblIdx, copyLog, faults>>
       \/ /\ InjectFault
          /\ Except(copyLog)
          /\ UNCHANGED <<columns, create_sql>>
    /\ UNCHANGED <<srcDb, destDb, destTx, cdf, stmtLog>>
    /\ UNCHANGED <<etlVars, schemaVars, restVars, pgqlVars>>

\* lines 73-76: CREATE TABLE on the destination; it fails when the table is
\* still there or the statement has no column
CreateTable ==
    /\ cpc = "create"
    /\ \/ /\ ~destTx[table_name].exists
          /\ Len(columns) > 0
          /\ destTx' = [destTx EXCEPT ![table_name] = DestTable(create_sql, <<>>)]
          /\ destDb' = destTx'
          /\ copyLog' = Append(copyLog, <<"Created", table_name>>)
          /\ stmtLog' = Append(stmtLog, <<"CREATE", table_name, "ok">>)
          /\ cpc' = "insert"
          /\ UNCHANGED <<tblIdx, faults>>
       \/ /\ IF ~destTx[table_name].exists /\ Len(columns) > 0
             THEN InjectFault ELSE UNCHANGED faults
          /\ stmtLog' = Append(stmtLog, <<"CREATE", table_name, "error">>)
          /\ Except(copyLog)
          /\ UNCHANGED <<destTx, destDb>>
    /\ UNCHANGED <<srcDb, cdf, columns, create_sql>>
    /\ UNCHANGED <<etlVars, schemaVars, restVars, pgqlVars>>

\* copy_table committing only when more than one row was read
InsertRows_CommitsSeveral ==
    /\ cpc = "insert"
    /\ destTx' = [destTx EXCEPT ![table_name].rows = StoredRows(cdf, Len(cdf))]
    /\ destDb' = IF Len(cdf) > 1 THEN destTx' ELSE destDb
    /\ stmtLog' = IF Len(cdf) > 0
                  THEN Append(stmtLog, <<"INSERT", table_name, "ok">>) ELSE stmtLog
    /\ copyLog' = Append(copyLog, <<"OK", table_name>>)
    /\ NextTable
    /\ UNCHANGED <<srcDb, cdf, columns, create_sql, faults>>
    /\ UNCHANGED <<etlVars, schemaVars, restVars, pgqlVars>>

\* lines 78-93: executemany and commit when the DataFrame has rows, then return.
\* executemany stops at the first row the database rejects (a NaN it does not
\* take, or another error), leaving the rows before it uncommitted.
InsertRows ==
    /\ cpc = "insert"
    /\ \/ /\ Len(cdf) = 0
          /\ copyLog' = Append(copyLog, <<"OK", table_name>>)
          /\ NextTable
          /\ UNCHANGED <<destTx, destDb, stmtLog, faults>>
       \/ /\ Len(cdf) > 0
          /\ destTx' = [destTx EXCEPT ![table_name].rows = StoredRows(cdf, Len(cdf))]
          /\ \/ /\ destDb' = destTx'
                /\ stmtLog' = Append(stmtLog, <<"INSERT", table_name, "ok">>)
                /\ copyLog' = Append(Append(copyLog, <<"Inserted", table_name>>),
                                     <<"OK", table_name>>)
                /\ NextTable
                /\ UNCHANGED faults
             \/ /\ InjectFault                   \* the commit raises
                /\ stmtLog' = Append(stmtLog, <<"INSERT", table_name, "ok">>)
                /\ Except(copyLog)
                /\ UNCHANGED destDb
       \/ /\ Len(cdf) > 0
          /\ \E n \in 0..(Len(cdf) - 1) :       \* row n + 1 is rejected
                /\ IF HasNaN(cdf[n + 1]) THEN UNCHANGED faults ELSE InjectFault
                /\ destTx' = [destTx EXCEPT ![table_name].rows = StoredRows(cdf, n)]
          /\ stmtLog' = Append(stmtLog, <<"INSERT", table_name, "error">>)
          /\ Except(copyLog)
          /\ UNCHANGED destDb
    /\ UNCHANGED <<srcDb, cdf, columns, create_sql>>
    /\ UNCHANGED <<etlVars, schemaVars, restVars, pgqlVars>>

\* lines 132-136: SELECT COUNT(*) on every table of the list; a missing table
\* ends the script with the exception
Verify ==
    /\ cpc = "verify"
    /\ IF \A t \in CopyTables : destTx[t].exists
       THEN /\ cpc' = "close"
            /\ UNCHANGED destTx
       ELSE /\ cpc' = "crashed"
            /\ destTx' = destDb
    /\ UNCHANGED <<tblIdx, srcDb, destDb, cdf, columns, create_sql, copyLog,
                   stmtLog, faults>>
    /\ UNCHANGED <<etlVars, schemaVars, restVars, pgqlVars>>

\* lines 139-140: closing dest_conn rolls back what is not committed
CloseConnections ==
    /\ cpc = "close"
    /\ cpc' = "done"
    /\ destTx' = destDb
    /\ UNCHANGED <<tblIdx, srcDb, destDb, cdf, columns, create_sql, copyLog,
                   stmtLog, faults>>
    /\ UNCHANGED <<etlVars, schemaVars, restVars, pgqlVars>>

InitCopy ==
    /\ cpc = "start"
    /\ tblIdx = 0
    /\ srcDb \in SourceDatabases
    /\ destDb \in DestDatabases
    /\ destTx = destDb
    /\ cdf = <<>>
    /\ columns = <<>>
    /\ create_sql = "None"
    /\ copyLog = <<>>
    /\ stmtLog = <<>>
    /\ faults = 0
    /\ EtlIdle
    /\ SchemaIdle
    /\ RestIdle
    /\ PgqlIdle

NextCopy ==
    \/ CopyConnect
    \/ ReadSource
    \/ DropTable
    \/ FetchColumns
    \/ CreateTable
    \/ InsertRows
    \/ Verify
    \/ CloseConnections

SpecCopy == InitCopy /\ [][NextCopy]_vars

(***************************************************************************)
(* Properties of the copy script                                           *)
(***************************************************************************)
Printed(message, t) == \E i \in 1..Len(copyLog) : copyLog[i] = <<message, t>>

Attempts == SelectSeq(copyLog, LAMBDA line : line[1] = "Copying")

Outcomes(t) ==
    {i \in 1..Len(copyLog) : copyLog[i] = <<"OK", t>> \/ copyLog[i] = <<"ERROR", t>>}

\* C6: once copy_table has returned for a table, the destination table exists
\* and its committed rows are exactly the rows of the source table, as many as
\* were read, zero included.
C6_RowsMatchAfterCopy ==
    \A t \in CopyTables :
        Printed("OK", t) =>
            /\ destDb[t].exists
            /\ destDb[t].rows = srcDb[t].rows
            /\ Len(destDb[t].rows) = Len(srcDb[t].rows)
            /\ destTx[t] = destDb[t]

C6_Witness ==
    /\ Printed("OK", "months") /\ Len(destDb["months"].rows) = 0
    /\ Printed("OK", "entities") /\ Len(destDb["entities"].rows) = 2
    /\ Printed("Dropped", "entities")
    /\ cpc = "done"

\* C7: the script enters copy_table for the tables of its list in list order,
\* each once; every table entered before the current one ended with exactly one
\* of OK and ERROR, a failed statement of a table shows as its ERROR line, and
\* when the loop is over all ten tables were entered.
C7_LogAndContinue ==
    /\ Len(Attempts) <= Len(copy_tables)
    /\ \A i \in 1..Len(Attempts) : Attempts[i][2] = copy_tables[i]
    /\ \A i \in 1..Len(Attempts) :
          Cardinality(Outcomes(copy_tables[i]))
              = IF i < tblIdx THEN 1 ELSE 0
    /\ \A i \in 1..Len(stmtLog) :
          stmtLog[i][1] # "DROP" /\ stmtLog[i][3] = "error"
              => Printed("ERROR", stmtLog[i][2])
    /\ tblIdx > Len(copy_tables) => Len(Attempts) = 10

C7_Witness ==
    /\ Printed("ERROR", "target_proxies")
    /\ Printed("ERROR", "countries")
    /\ Printed("OK", "has_inspection_result_edges")
    /\ tblIdx > Len(copy_tables)

\* C8: the step in which DROP TABLE fails prints nothing, does not leave
\* copy_table and hands over to the column query that precedes CREATE TABLE.
C8_BestEffortDrop ==
    [][(/\ Len(stmtLog') = Len(stmtLog) + 1
        /\ stmtLog'[Len(stmtLog')][1] = "DROP"
        /\ stmtLog'[Len(stmtLog')][3] = "error")
          => /\ copyLog' = copyLog
             /\ tblIdx' = tblIdx
             /\ cpc' = "columns"]_vars

C8_Witness ==
    \E i \in 1..(Len(stmtLog) - 2) :
        /\ stmtLog[i] = <<"DROP", "countries", "error">>
        /\ stmtLog[i + 1] = <<"CREATE", "countries", "ok">>
        /\ stmtLog[i + 2] = <<"INSERT", "countries", "ok">>
        /\ Printed("OK", "countries")

(***************************************************************************)
(* PGXRestClient (main_app/pgx_rest_client.py)                             *)
(***************************************************************************)
Methods == { "get_version", "load_graph_from_database", "run_pagerank",
             "run_betweenness_centrality", "run_community_detection",
             "run_deepwalk", "execute_pgql", "list_graphs", "get_graph_info",
             "delete_graph" }

\* the values of the graph_name argument
GraphNames == {"pest_graph", ""}

\* the values of the algorithm argument of run_community_detection
CommunityAlgorithms == {"louvain", "label_propagation", "pagerank"}

\* how many calls are made on one client
MaxCalls == 2

\* a client sending delete_graph as a GET
Verb_DeleteAsGet(method) ==
    CASE method \in {"get_version", "list_graphs", "get_graph_info", "delete_graph"}
            -> "GET"
      [] OTHER -> "POST"

\* self.session.get / .post / .delete of each method
Verb(method) ==
    CASE method \in {"get_version", "list_graphs", "get_graph_info"} -> "GET"
      [] method = "delete_graph" -> "DELETE"
      [] OTHER -> "POST"

\* the URL of each method, after base_url
Path(method, graph_name) ==
    CASE method = "get_version" -> "/version"
      [] method \in {"load_graph_from_database", "list_graphs"} -> "/graphs"
      [] method \in {"run_pagerank", "run_betweenness_centrality",
                     "run_community_detection"} -> "/analytics/algorithms/run"
      [] method = "run_deepwalk" -> "/analytics/ml/deepwalk"
      [] method = "execute_pgql" -> "/pgql/query"
      [] OTHER -> "/graphs/" \o graph_name

\* the "algorithm" entry of the JSON payload, "" when the payload has none
Algorithm(method, algorithm) ==
    CASE method = "run_pagerank" -> "pagerank"
      [] method = "run_betweenness_centrality" -> "betweenness_centrality"
      [] method = "run_community_detection" -> algorithm
      [] method = "run_deepwalk" -> "deepwalk"
      [] OTHER -> ""

\* one call of a public method: the request is sent, then raise_for_status
\* raises on an error status, else the decoded body is returned
Invoke(method) ==
    /\ Len(calls) < MaxCalls
    /\ \E g \in GraphNames, a \in CommunityAlgorithms, status \in {200, 404, 500} :
          /\ requests' = Append(requests,
                                [verb |-> Verb(method), path |-> Path(method, g),
                                 algorithm |-> Algorithm(method, a)])
          /\ calls' = Append(calls,
                             [method |-> method,
                              outcome |-> IF status >= 400 THEN "HTTPError"
                                          ELSE "returned"])

get_version ==
    /\ Invoke("get_version")
    /\ UNCHANGED <<etlVars, copyVars, schemaVars, pgqlVars>>

load_graph_from_database ==
    /\ Invoke("load_graph_from_database")
    /\ UNCHANGED <<etlVars, copyVars, schemaVars, pgqlVars>>

run_pagerank ==
    /\ Invoke("run_pagerank")
    /\ UNCHANGED <<etlVars, copyVars, schemaVars, pgqlVars>>

run_betweenness_centrality ==
    /\ Invoke("run_betweenness_centrality")
    /\ UNCHANGED <<etlVars, copyVars, schemaVars, pgqlVars>>

run_community_detection ==
    /\ Invoke("run_community_detection")
    /\ UNCHANGED <<etlVars, copyVars, schemaVars, pgqlVars>>

run_deepwalk ==
    /\ Invoke("run_deepwalk")
    /\ UNCHANGED <<etlVars, copyVars, schemaVars, pgqlVars>>

execute_pgql ==
    /\ Invoke("execute_pgql")
    /\ UNCHANGED <<etlVars, copyVars, schemaVars, pgqlVars>>

list_graphs ==
    /\ Invoke("list_graphs")
    /\ UNCHANGED <<etlVars, copyVars, schemaVars, pgqlVars>>

get_graph_info ==
    /\ Invoke("get_graph_info")
    /\ UNCHANGED <<etlVars, copyVars, schemaVars, pgqlVars>>

delete_graph ==
    /\ Invoke("delete_graph")
    /\ UNCHANGED <<etlVars, copyVars, schemaVars, pgqlVars>>

InitRest ==
    /\ requests = <<>>
    /\ calls = <<>>
    /\ EtlIdle
    /\ CopyIdle
    /\ SchemaIdle
    /\ PgqlIdle

NextRest ==
    \/ get_version
    \/ load_graph_from_database
    \/ run_pagerank
    \/ run_betweenness_centrality
    \/ run_community_detection
    \/ run_deepwalk
    \/ execute_pgql
    \/ list_graphs
    \/ get_graph_info
    \/ delete_graph

SpecRest == InitRest /\ [][NextRest]_vars

(***************************************************************************)
(* Properties of the REST client                                           *)
(***************************************************************************)
SameEndpoint(i, j) ==
    requests[i].verb = requests[j].verb /\ requests[i].path = requests[j].path

AlgorithmRunners ==
    {"run_pagerank", "run_betweenness_centrality", "run_community_detection"}

\* C10 as stated: every call issues exactly one request, and calls of two
\* different methods never address the same endpoint (verb and path).
C10_OneToOne ==
    /\ Len(requests) = Len(calls)
    /\ \A i, j \in 1..Len(calls) :
          calls[i].method # calls[j].method => ~SameEndpoint(i, j)

\* C10, amended: every call issues exactly one request, and calls of two
\* different methods address the same endpoint only when both methods are among
\* run_pagerank, run_betweenness_centrality and run_community_detection, which
\* share POST /analytics/algorithms/run.
C10_OneToOneButAlgorithms ==
    /\ Len(requests) = Len(calls)
    /\ \A i, j \in 1..Len(calls) :
          calls[i].method # calls[j].method /\ SameEndpoint(i, j)
              => /\ {calls[i].method, calls[j].method} \subseteq AlgorithmRunners
                 /\ requests[i].verb = "POST"
                 /\ requests[i].path = "/analytics/algorithms/run"

C10_Witness ==
    /\ Len(calls) = 2
    /\ calls[1].method = "run_pagerank"
    /\ calls[2].method = "run_betweenness_centrality"
    /\ SameEndpoint(1, 2)
    /\ requests[1].algorithm # requests[2].algorithm

\* copy_table(t) was left by the exception of pd.read_sql: "Copying t" is
\* followed by the error line, not by "Read ... rows"
ReadFailed(t) ==
    \E i \in 1..(Len(copyLog) - 1) :
        copyLog[i] = <<"Copying", t>> /\ copyLog[i + 1] = <<"ERROR", t>>

StatementsOn(log, t) == {i \in 1..Len(log) : log[i][2] = t}

\* C27: the step in which reading the source fails runs no statement on the
\* destination and leaves it as it is; a table whose read failed has no DROP,
\* CREATE or INSERT in the statement log, then or later; and the contents of
\* a destination table, committed or not, change only in a run that has a
\* statement on that table, so the table of a failed read stays what it was.
C27_ReadBeforeWrite ==
    /\ [](\A t \in CopyTables : ReadFailed(t) => StatementsOn(stmtLog, t) = {})
    /\ [][(cpc = "read" /\ cpc' # "drop") =>
            /\ \A t \in CopyTables : t = table_name => ReadFailed(t)'
            /\ stmtLog' = stmtLog
            /\ destDb' = destDb
            /\ destTx' = destTx]_vars
    /\ [][\A t \in CopyTables :
            (destDb'[t] # destDb[t] \/ destTx'[t] # destTx[t]) =>
                StatementsOn(stmtLog', t) # {}]_vars

C27_Witness ==
    /\ ReadFailed("target_proxies")
    /\ ~srcDb["target_proxies"].exists
    /\ destDb["target_proxies"] = DestTable("earlier copy", << <<"old", "0">> >>)
    /\ destTx["target_proxies"] = destDb["target_proxies"]
    /\ ReadFailed("entities")
    /\ srcDb["entities"].exists
    /\ destDb["entities"] = DestTable("earlier copy", << <<"old", "0">> >>)
    /\ Printed("OK", "country_months")

(***************************************************************************)
(* SpecPgql: the script pgql_queries.py.  connect_db, then the six         *)
(* analyses, each one step that sends its queries through run_query, then  *)
(* the finally block.  Whether a query fails is the database's choice.     *)
(***************************************************************************)
QueryOutcomes == {"ok", "error"}

\* the analyses in the order __main__ calls them, with the descriptions of
\* the queries each one sends
Analyses ==
    << [name |-> "analyze_graph_structure",
        descriptions |-> <<"Vertex Counts:", "Edge Counts:">>],
       [name |-> "analyze_node_degrees",
        descriptions |-> <<"Top 10 Entities by Connections:">>],
       [name |-> "analyze_country_distribution",
        descriptions |-> <<"Entities per Country:">>],
       [name |-> "analyze_temporal_patterns",
        descriptions |-> <<"Shipments by Month:">>],
       [name |-> "analyze_inspection_results",
        descriptions |-> <<"Inspection Results Distribution:">>],
       [name |-> "find_high_risk_entities",
        descriptions |-> <<"Top 10 Entities by Pest Detection Rate:">>] >>

\* run_query without the try: the error of pd.read_sql leaves the function
run_query_Propagates(analysis, description, outcome) ==
    [analysis |-> analysis, description |-> description, outcome |-> outcome,
     returned |-> IF outcome = "ok" THEN "df" ELSE "raised"]

\* run_query (lines 26-37): the frame, or None after `except Exception`
run_query(analysis, description, outcome) ==
    [analysis |-> analysis, description |-> description, outcome |-> outcome,
     returned |-> IF outcome = "ok" THEN "df" ELSE "None"]

\* the calls of a sequence up to the first that raised
UpToRaise(made) ==
    IF \E i \in 1..Len(made) : made[i].returned = "raised"
    THEN SubSeq(made, 1, CHOOSE i \in 1..Len(made) :
                            /\ made[i].returned = "raised"
                            /\ \A j \in 1..(i - 1) : made[j].returned # "raised")
    ELSE made

\* the position after analysis k
After(k) == IF k < Len(Analyses) THEN Analyses[k + 1].name ELSE "finally"

\* analysis k of __main__: its run_query calls in order; an exception out of
\* one of them leaves the try block for the finally
Analyze(k) ==
    /\ qpc = Analyses[k].name
    /\ \E outs \in [1..Len(Analyses[k].descriptions) -> QueryOutcomes] :
        LET made == [i \in 1..Len(outs) |->
                        run_query(Analyses[k].name, Analyses[k].descriptions[i],
                                  outs[i])]
        IN /\ queryLog' = queryLog \o UpToRaise(made)
           /\ qpc' = IF UpToRaise(made) = made THEN After(k) ELSE "finally"
    /\ UNCHANGED <<qconn, qcloses, etlVars, copyVars, schemaVars, restVars>>

\* connection = connect_db(), outside the try: an error ends the script
connect_db ==
    /\ qpc = "start"
    /\ \/ /\ qconn' = "open"
          /\ qpc' = Analyses[1].name
       \/ /\ qconn' = "None"
          /\ qpc' = "failed"
    /\ UNCHANGED <<queryLog, qcloses, etlVars, copyVars, schemaVars, restVars>>

analyze_graph_structure == Analyze(1)

analyze_node_degrees == Analyze(2)

analyze_country_distribution == Analyze(3)

analyze_temporal_patterns == Analyze(4)

analyze_inspection_results == Analyze(5)

find_high_risk_entities == Analyze(6)

\* finally: connection.close()
PgqlFinally ==
    /\ qpc = "finally"
    /\ qconn' = "closed"
    /\ qcloses' = qcloses + 1
    /\ qpc' = "done"
    /\ UNCHANGED <<queryLog, etlVars, copyVars, schemaVars, restVars>>

InitPgql ==
    /\ qpc = "start"
    /\ qconn = "None"
    /\ queryLog = <<>>
    /\ qcloses = 0
    /\ EtlIdle
    /\ CopyIdle
    /\ SchemaIdle
    /\ RestIdle

NextPgql ==
    \/ connect_db
    \/ analyze_graph_structure
    \/ analyze_node_degrees
    \/ analyze_country_distribution
    \/ analyze_temporal_patterns
    \/ analyze_inspection_results
    \/ find_high_risk_entities
    \/ PgqlFinally

SpecPgql == InitPgql /\ [][NextPgql]_vars

\* the run_query calls of a complete run, in order: <<analysis, description>>
AllQueries ==
    << <<"analyze_graph_structure", "Vertex Counts:">>,
       <<"analyze_graph_structure", "Edge Counts:">>,
       <<"analyze_node_degrees", "Top 10 Entities by Connections:">>,
       <<"analyze_country_distribution", "Entities per Country:">>,
       <<"analyze_temporal_patterns", "Shipments by Month:">>,
       <<"analyze_inspection_results", "Inspection Results Distribution:">>,
       <<"find_high_risk_entities", "Top 10 Entities by Pest Detection Rate:">> >>

QueriesMade == [i \in 1..Len(queryLog) |->
                  <<queryLog[i].analysis, queryLog[i].description>>]

\* C26: a query that fails makes run_query return None and nothing else; the
\* queries made are always the first ones of the fixed order; once the
\* connection was made the script ends only after all seven queries of the six
\* analyses, whichever failed; and the connection is closed once, after the
\* last of them.
C26_AllAnalysesRun ==
    /\ \A i \in 1..Len(queryLog) :
          queryLog[i].returned = (IF queryLog[i].outcome = "ok" THEN "df" ELSE "None")
    /\ IsPrefix(QueriesMade, AllQueries)
    /\ qcloses <= 1
    /\ qcloses = 1 => QueriesMade = AllQueries /\ qconn = "closed"
    /\ qpc \in {"finally", "done"} => QueriesMade = AllQueries
    /\ qpc = "done" => qcloses = 1

C26_Witness ==
    /\ qpc = "done"
    /\ qcloses = 1
    /\ Len(queryLog) = 7
    /\ queryLog[1].outcome = "error"
    /\ queryLog[2].outcome = "ok"
    /\ queryLog[4].outcome = "error"
    /\ queryLog[7].outcome = "error"

====
